---------------------------- MODULE Spec2Model ----------------------------
(***************************************************************************)
(* A model of the rj_core decoders: the byte cursor (parser/primitive.rs), *)
(* the constant pool, attribute, field, method and class file decoders     *)
(* (class/*.rs), the descriptor grammar (class/descriptors/*.rs) and the   *)
(* instruction decoder (asm/instruction.rs).                               *)
(*                                                                         *)
(* Every decoder is a pure function of the program; it is an operator      *)
(* here, computed step by step as the code computes it.  A byte slice is a *)
(* sequence of integers 0..255.  An outcome is one of                      *)
(*   [tag |-> "Ok", rest |-> <remaining slice>, value |-> <decoded value>] *)
(*   [tag |-> "Err", err |-> <typed error>]                                *)
(*   [tag |-> "Panic"]          the call unwinds instead of returning.     *)
(* TLC's integers are 32 bits wide, so a u32 is kept as two 16-bit limbs   *)
(* and a 64-bit value as four.                                             *)
(***************************************************************************)
EXTENDS Integers, Sequences, FiniteSets, TLC

VARIABLES
  input,            \* the byte slice handed to the decoder
  constant_pool,    \* the constant pool handed to parse_attribute
  overflow_checks,  \* build profile: TRUE when arithmetic overflow panics
  argument,         \* the further arguments of the call: <<length>> for
                    \* bytes, <<delim>> for take_until, <<>> otherwise
  call,             \* the decoder that has run on input ("none" before)
  result            \* its outcome

vars == <<input, constant_pool, overflow_checks, argument, call, result>>

\* ---------------------------------------------------------------- outcomes

Ok(rest, value) == [tag |-> "Ok", rest |-> rest, value |-> value]

Err(error) == [tag |-> "Err", err |-> error]

Panic == [tag |-> "Panic"]

NoResult == [tag |-> "None"]

\* parser::ParseError::Eof, and its wrapping by From<ParseError>
Eof == [kind |-> "ParseError", cause |-> "Eof"]

UnknownInstruction(opcode) == [kind |-> "UnknownInstruction", opcode |-> opcode]

InvalidConstantTag(tag) == [kind |-> "InvalidConstantTag", tag |-> tag]

InvalidConstantPoolIndex(index) == [kind |-> "InvalidConstantPoolIndex", index |-> index]

InvalidFieldDescriptor == [kind |-> "InvalidFieldDescriptor"]

IsOk(r) == r.tag = "Ok"

IsErr(r, kind) == r.tag = "Err" /\ r.err.kind = kind

IsEof(r) == IsErr(r, "ParseError")

\* ------------------------------------------------------------- byte cursor

Drop(s, n) == SubSeq(s, n + 1, Len(s))

Take(s, n) == SubSeq(s, 1, n)

\* u16::from_be_bytes
U16(b0, b1) == b0 * 256 + b1

\* value as i8 / i16::from_be_bytes: two's complement
I8(b0) == IF b0 >= 128 THEN b0 - 256 ELSE b0

I16(b0, b1) == IF b0 >= 128 THEN U16(b0, b1) - 65536 ELSE U16(b0, b1)

\* i32::from_be_bytes; the leading byte is sign-adjusted first, so that no
\* intermediate value leaves the 32-bit range
I32(b0, b1, b2, b3) == I8(b0) * 16777216 + b1 * 65536 + b2 * 256 + b3

\* bytes refusing a slice that takes the whole input
bytes_strict(inp, length) ==
  IF Len(inp) <= length THEN Err(Eof)
  ELSE Ok(Drop(inp, length), Take(inp, length))

\* bytes returning the two halves of split_at the other way round
bytes_swapped(inp, length) ==
  IF Len(inp) < length THEN Err(Eof)
  ELSE Ok(Take(inp, length), Drop(inp, length))

bytes(inp, length) ==
  IF Len(inp) < length THEN Err(Eof)
  ELSE Ok(Drop(inp, length), Take(inp, length))

be_u8(inp) ==
  IF Len(inp) = 0 THEN Err(Eof) ELSE Ok(Drop(inp, 1), inp[1])

\* be_u16 whose remainder starts at the second byte
be_u16_rest_from_1(inp) ==
  IF Len(inp) < 2 THEN Err(Eof) ELSE Ok(Drop(inp, 1), U16(inp[1], inp[2]))

be_u16(inp) ==
  IF Len(inp) < 2 THEN Err(Eof) ELSE Ok(Drop(inp, 2), U16(inp[1], inp[2]))

\* a u32 is the pair <<high 16 bits, low 16 bits>>
be_u32(inp) ==
  IF Len(inp) < 4 THEN Err(Eof)
  ELSE Ok(Drop(inp, 4), <<U16(inp[1], inp[2]), U16(inp[3], inp[4])>>)

\* a u64 is four 16-bit limbs, most significant first
be_u64(inp) ==
  IF Len(inp) < 8 THEN Err(Eof)
  ELSE Ok(Drop(inp, 8), <<U16(inp[1], inp[2]), U16(inp[3], inp[4]),
                          U16(inp[5], inp[6]), U16(inp[7], inp[8])>>)

be_i8(inp) ==
  IF Len(inp) = 0 THEN Err(Eof) ELSE Ok(Drop(inp, 1), I8(inp[1]))

\* be_i16 reading the two bytes as unsigned
be_i16_unsigned(inp) ==
  IF Len(inp) < 2 THEN Err(Eof) ELSE Ok(Drop(inp, 2), U16(inp[1], inp[2]))

be_i16(inp) ==
  IF Len(inp) < 2 THEN Err(Eof) ELSE Ok(Drop(inp, 2), I16(inp[1], inp[2]))

be_i32(inp) ==
  IF Len(inp) < 4 THEN Err(Eof)
  ELSE Ok(Drop(inp, 4), I32(inp[1], inp[2], inp[3], inp[4]))

\* an i64 is four 16-bit limbs, the most significant one signed
be_i64(inp) ==
  IF Len(inp) < 8 THEN Err(Eof)
  ELSE Ok(Drop(inp, 8), <<I16(inp[1], inp[2]), U16(inp[3], inp[4]),
                          U16(inp[5], inp[6]), U16(inp[7], inp[8])>>)

\* f32::from_be_bytes reinterprets the 32 bits; the value is kept as its bit
\* pattern, two 16-bit limbs
be_f32(inp) ==
  IF Len(inp) < 4 THEN Err(Eof)
  ELSE Ok(Drop(inp, 4), <<U16(inp[1], inp[2]), U16(inp[3], inp[4])>>)

be_f64(inp) ==
  IF Len(inp) < 8 THEN Err(Eof)
  ELSE Ok(Drop(inp, 8), <<U16(inp[1], inp[2]), U16(inp[3], inp[4]),
                          U16(inp[5], inp[6]), U16(inp[7], inp[8])>>)

\* input.windows(n).position(|w| w == delim): the least start of a window
\* equal to delim, 0 when there is none (delim is never empty here:
\* windows(0) panics)
\* rposition: the greatest start of a window equal to delim
PositionLast(inp, delim) ==
  LET starts == {i \in 1..(Len(inp) - Len(delim) + 1) :
                   SubSeq(inp, i, i + Len(delim) - 1) = delim}
  IN IF starts = {} THEN 0
     ELSE CHOOSE i \in starts : \A j \in starts : i >= j

Position(inp, delim) ==
  LET starts == {i \in 1..(Len(inp) - Len(delim) + 1) :
                   SubSeq(inp, i, i + Len(delim) - 1) = delim}
  IN IF starts = {} THEN 0
     ELSE CHOOSE i \in starts : \A j \in starts : i <= j

\* take_until leaving the delimiter in the remainder
take_until_keeps_delimiter(inp, delim) ==
  LET position == Position(inp, delim)
  IN IF position = 0 THEN Err(Eof)
     ELSE Ok(Drop(inp, position - 1), Take(inp, position - 1))

take_until(inp, delim) ==
  LET position == Position(inp, delim)
  IN IF position = 0 THEN Err(Eof)
     ELSE Ok(Drop(inp, position - 1 + Len(delim)), Take(inp, position - 1))

\* `length as usize` of a u32 on a 64-bit target.  Values from 2^31 up are
\* clamped to 2^31 - 1: bytes only compares the length with len(input),
\* which is far smaller.
usize_of_u32(v) ==
  IF v[1] >= 32768 THEN 2147483647 ELSE v[1] * 65536 + v[2]


\* --------------------------------------------------- instruction decoder
\* Mnemonic[opcode + 1] is the Instruction variant of the match arm of
\* opcode ("" when the match has no arm, "unimplemented" for the two arms
\* that are unimplemented!()); OperandReaders[opcode + 1] lists the readers
\* the arm calls, in order.  0xc4 (wide) is decoded apart.

Mnemonic ==
  <<"Nop", "AconstNull", "IconstM1", "Iconst0",
     "Iconst1", "Iconst2", "Iconst3", "Iconst4",
     "Iconst5", "Lconst0", "Lconst1", "Fconst0",
     "Fconst1", "Fconst2", "Dconst0", "Dconst1",
     "Bipush", "Sipush", "Ldc", "LdcW",
     "Ldc2W", "Iload", "Lload", "Fload",
     "Dload", "Aload", "Iload0", "Iload1",
     "Iload2", "Iload3", "Lload0", "Lload1",
     "Lload2", "Lload3", "Fload0", "Fload1",
     "Fload2", "Fload3", "Dload0", "Dload1",
     "Dload2", "Dload3", "Aload0", "Aload1",
     "Aload2", "Aload3", "Iaload", "Laload",
     "Faload", "Daload", "Aaload", "Baload",
     "Caload", "Saload", "Istore", "Lstore",
     "Fstore", "Dstore", "Astore", "Istore0",
     "Istore1", "Istore2", "Istore3", "Lstore0",
     "Lstore1", "Lstore2", "Lstore3", "Fstore0",
     "Fstore1", "Fstore2", "Fstore3", "Dstore0",
     "Dstore1", "Dstore2", "Dstore3", "Astore0",
     "Astore1", "Astore2", "Astore3", "Iastore",
     "Lastore", "Fastore", "Dastore", "Aastore",
     "Bastore", "Castore", "Sastore", "Pop",
     "Pop2", "Dup", "DupX1", "DupX2",
     "Dup2", "Dup2X1", "Dup2X2", "Swap",
     "Iadd", "Ladd", "Fadd", "Dadd",
     "Isub", "Lsub", "Fsub", "Dsub",
     "Imul", "Lmul", "Fmul", "Dmul",
     "Idiv", "Ldiv", "Fdiv", "Ddiv",
     "Irem", "Lrem", "Frem", "Drem",
     "Ineg", "Lneg", "Fneg", "Dneg",
     "Ishl", "Lshl", "Ishr", "Lshr",
     "Iushr", "Lushr", "Iand", "Land",
     "Ior", "Lor", "Ixor", "Lxor",
     "Iinc", "I2l", "I2f", "I2d",
     "L2i", "L2f", "L2d", "F2i",
     "F2l", "F2d", "D2i", "D2l",
     "D2f", "I2b", "I2c", "I2s",
     "Lcmp", "Fcmpl", "Fcmpg", "Dcmpl",
     "Dcmpg", "Ifeq", "Ifne", "Iflt",
     "Ifge", "Ifgt", "Ifle", "IfIcmpeq",
     "IfIcmpne", "IfIcmplt", "IfIcmpge", "IfIcmpgt",
     "IfIcmple", "IfAcmpeq", "IfAcmpne", "Goto",
     "Jsr", "Ret", "unimplemented", "unimplemented",
     "Ireturn", "Lreturn", "Freturn", "Dreturn",
     "Areturn", "Return", "Getstatic", "Putstatic",
     "Getfield", "Putfield", "Invokevirtual", "Invokespecial",
     "Invokestatic", "Invokeinterface", "Invokedynamic", "New",
     "Newarray", "Anewarray", "Arraylength", "Athrow",
     "Checkcast", "Instanceof", "Monitorenter", "Monitorexit",
     "", "Multianewarray", "Ifnull", "Ifnonnull",
     "GotoW", "JsrW", "", "",
     "", "", "", "",
     "", "", "", "",
     "", "", "", "",
     "", "", "", "",
     "", "", "", "",
     "", "", "", "",
     "", "", "", "",
     "", "", "", "",
     "", "", "", "",
     "", "", "", "",
     "", "", "", "",
     "", "", "", "",
     "", "", "", "">>

OperandReaders ==
  <<<<>>, <<>>, <<>>, <<>>,
     <<>>, <<>>, <<>>, <<>>,
     <<>>, <<>>, <<>>, <<>>,
     <<>>, <<>>, <<>>, <<>>,
     <<"be_i8">>, <<"be_i16">>, <<"be_u8">>, <<"be_u16">>,
     <<"be_u16">>, <<"be_u8">>, <<"be_u8">>, <<"be_u8">>,
     <<"be_u8">>, <<"be_u8">>, <<>>, <<>>,
     <<>>, <<>>, <<>>, <<>>,
     <<>>, <<>>, <<>>, <<>>,
     <<>>, <<>>, <<>>, <<>>,
     <<>>, <<>>, <<>>, <<>>,
     <<>>, <<>>, <<>>, <<>>,
     <<>>, <<>>, <<>>, <<>>,
     <<>>, <<>>, <<"be_u8">>, <<"be_u8">>,
     <<"be_u8">>, <<"be_u8">>, <<"be_u8">>, <<>>,
     <<>>, <<>>, <<>>, <<>>,
     <<>>, <<>>, <<>>, <<>>,
     <<>>, <<>>, <<>>, <<>>,
     <<>>, <<>>, <<>>, <<>>,
     <<>>, <<>>, <<>>, <<>>,
     <<>>, <<>>, <<>>, <<>>,
     <<>>, <<>>, <<>>, <<>>,
     <<>>, <<>>, <<>>, <<>>,
     <<>>, <<>>, <<>>, <<>>,
     <<>>, <<>>, <<>>, <<>>,
     <<>>, <<>>, <<>>, <<>>,
     <<>>, <<>>, <<>>, <<>>,
     <<>>, <<>>, <<>>, <<>>,
     <<>>, <<>>, <<>>, <<>>,
     <<>>, <<>>, <<>>, <<>>,
     <<>>, <<>>, <<>>, <<>>,
     <<>>, <<>>, <<>>, <<>>,
     <<>>, <<>>, <<>>, <<>>,
     <<"be_u8", "be_i8">>, <<>>, <<>>, <<>>,
     <<>>, <<>>, <<>>, <<>>,
     <<>>, <<>>, <<>>, <<>>,
     <<>>, <<>>, <<>>, <<>>,
     <<>>, <<>>, <<>>, <<>>,
     <<>>, <<"be_i16">>, <<"be_i16">>, <<"be_i16">>,
     <<"be_i16">>, <<"be_i16">>, <<"be_i16">>, <<"be_i16">>,
     <<"be_i16">>, <<"be_i16">>, <<"be_i16">>, <<"be_i16">>,
     <<"be_i16">>, <<"be_i16">>, <<"be_i16">>, <<"be_i16">>,
     <<"be_i16">>, <<"be_u8">>, <<>>, <<>>,
     <<>>, <<>>, <<>>, <<>>,
     <<>>, <<>>, <<"be_u16">>, <<"be_u16">>,
     <<"be_u16">>, <<"be_u16">>, <<"be_u16">>, <<"be_u16">>,
     <<"be_u16">>, <<"be_u16", "be_u8", "be_u8">>, <<"be_u16", "be_u8", "be_u8">>, <<"be_u16">>,
     <<"be_u8">>, <<"be_u16">>, <<>>, <<>>,
     <<"be_u16">>, <<"be_u16">>, <<>>, <<>>,
     <<>>, <<"be_u16", "be_u8">>, <<"be_i16">>, <<"be_i16">>,
     <<"be_i32">>, <<"be_i32">>, <<>>, <<>>,
     <<>>, <<>>, <<>>, <<>>,
     <<>>, <<>>, <<>>, <<>>,
     <<>>, <<>>, <<>>, <<>>,
     <<>>, <<>>, <<>>, <<>>,
     <<>>, <<>>, <<>>, <<>>,
     <<>>, <<>>, <<>>, <<>>,
     <<>>, <<>>, <<>>, <<>>,
     <<>>, <<>>, <<>>, <<>>,
     <<>>, <<>>, <<>>, <<>>,
     <<>>, <<>>, <<>>, <<>>,
     <<>>, <<>>, <<>>, <<>>,
     <<>>, <<>>, <<>>, <<>>,
     <<>>, <<>>, <<>>, <<>>>>

\* the readers with be_i16 taken for be_u16
ReaderUnsigned(name, inp) ==
  CASE name = "be_u8" -> be_u8(inp)
    [] name = "be_u16" -> be_u16(inp)
    [] name = "be_i8" -> be_i8(inp)
    [] name = "be_i16" -> be_u16(inp)
    [] name = "be_i32" -> be_i32(inp)

Reader(name, inp) ==
  CASE name = "be_u8" -> be_u8(inp)
    [] name = "be_u16" -> be_u16(inp)
    [] name = "be_i8" -> be_i8(inp)
    [] name = "be_i16" -> be_i16(inp)
    [] name = "be_i32" -> be_i32(inp)

\* the chain `let (input, x) = reader(input)?;` of one arm: the values read,
\* in order, and the remainder, or the first reader's error
RECURSIVE ReadOperands(_, _, _)
ReadOperands(readers, inp, acc) ==
  IF readers = <<>> THEN Ok(inp, acc)
  ELSE LET r == Reader(Head(readers), inp)
       IN IF IsOk(r) THEN ReadOperands(Tail(readers), r.rest, Append(acc, r.value))
          ELSE r

Instr(op, args) == [op |-> op, args |-> args]

\* invokeinterface storing 0 for its count as well
StoredOperandsNoCount(opcode, values) ==
  CASE opcode = 186 -> <<values[1], 0, 0>>
    [] opcode = 185 -> <<values[1], 0, 0>>
    [] OTHER -> values

\* the operands an arm stores: invokedynamic and invokeinterface read their
\* trailing bytes and store 0 in their place
StoredOperands(opcode, values) ==
  CASE opcode = 186 -> <<values[1], 0, 0>>
    [] opcode = 185 -> <<values[1], values[2], 0>>
    [] OTHER -> values

\* the wide arm with the arms of Fload and Lload exchanged
WideOfExchanged(name) ==
  CASE name = "Iload" -> "WideIload"
    [] name = "Fload" -> "WideLload"
    [] name = "Aload" -> "WideAload"
    [] name = "Lload" -> "WideFload"
    [] name = "Dload" -> "WideDload"
    [] name = "Istore" -> "WideIstore"
    [] name = "Fstore" -> "WideFstore"
    [] name = "Astore" -> "WideAstore"
    [] name = "Lstore" -> "WideLstore"
    [] name = "Dstore" -> "WideDstore"
    [] name = "Ret" -> "WideRet"
    [] name = "Iinc" -> "WideIinc"
    [] OTHER -> ""

\* the short instructions the wide arm matches on, and the variants it builds
WideOf(name) ==
  CASE name = "Iload" -> "WideIload"
    [] name = "Fload" -> "WideFload"
    [] name = "Aload" -> "WideAload"
    [] name = "Lload" -> "WideLload"
    [] name = "Dload" -> "WideDload"
    [] name = "Istore" -> "WideIstore"
    [] name = "Fstore" -> "WideFstore"
    [] name = "Astore" -> "WideAstore"
    [] name = "Lstore" -> "WideLstore"
    [] name = "Dstore" -> "WideDstore"
    [] name = "Ret" -> "WideRet"
    [] name = "Iinc" -> "WideIinc"
    [] OTHER -> ""

\* the arms with a default arm that reports Eof
ParseArmDefaultEof(opcode, inp) ==
  CASE Mnemonic[opcode + 1] = "" -> Err(Eof)
    [] Mnemonic[opcode + 1] = "unimplemented" -> Panic
    [] OTHER ->
         LET r == ReadOperands(OperandReaders[opcode + 1], inp, <<>>)
         IN IF IsOk(r)
            THEN Ok(r.rest, Instr(Mnemonic[opcode + 1], StoredOperands(opcode, r.value)))
            ELSE r

\* an arm other than wide
ParseArm(opcode, inp) ==
  CASE Mnemonic[opcode + 1] = "" -> Err(UnknownInstruction(opcode))
    [] Mnemonic[opcode + 1] = "unimplemented" -> Panic
    [] OTHER ->
         LET r == ReadOperands(OperandReaders[opcode + 1], inp, <<>>)
         IN IF IsOk(r)
            THEN Ok(r.rest, Instr(Mnemonic[opcode + 1], StoredOperands(opcode, r.value)))
            ELSE r

\* the arm of 0xc4, given the outcome of the probe parse_instruction(input)
ParseWide(probe, inp) ==
  IF probe.tag = "Panic" THEN Panic
  ELSE IF IsOk(probe) /\ WideOf(probe.value.op) # ""
  THEN LET readers == IF probe.value.op = "Iinc"
                      THEN <<"be_u8", "be_u16", "be_i16">>
                      ELSE <<"be_u8", "be_u16">>
           r == ReadOperands(readers, inp, <<>>)
       IN IF IsOk(r)
          THEN Ok(r.rest, Instr(WideOf(probe.value.op), Tail(r.value)))
          ELSE r
  ELSE LET r == be_u8(inp)
       IN IF IsOk(r) THEN Err(UnknownInstruction(r.value)) ELSE r

RECURSIVE parse_instruction(_)
parse_instruction(inp) ==
  LET first == be_u8(inp)
  IN IF ~IsOk(first) THEN first
     ELSE IF first.value = 196
     THEN ParseWide(parse_instruction(first.rest), first.rest)
     ELSE ParseArm(first.value, first.rest)


\* ------------------------------------------------------ descriptor grammar
\* FieldType values.  Bytes: 'B' 66, 'C' 67, 'D' 68, 'F' 70, 'I' 73, 'J' 74,
\* 'S' 83, 'Z' 90, 'L' 76, ';' 59, '[' 91, 'V' 86, '(' 40, ')' 41.

Base(name) == [ty |-> name]

Object(class_name) == [ty |-> "Object", name |-> class_name]

Array(field_type) == [ty |-> "Array", elem |-> field_type]

Void == [ty |-> "Void"]

parse_base_type(inp) ==
  LET r == be_u8(inp)
  IN IF ~IsOk(r) THEN r
     ELSE CASE r.value = 66 -> Ok(r.rest, Base("Byte"))
            [] r.value = 67 -> Ok(r.rest, Base("Char"))
            [] r.value = 68 -> Ok(r.rest, Base("Double"))
            [] r.value = 70 -> Ok(r.rest, Base("Float"))
            [] r.value = 73 -> Ok(r.rest, Base("Int"))
            [] r.value = 74 -> Ok(r.rest, Base("Long"))
            [] r.value = 83 -> Ok(r.rest, Base("Short"))
            [] r.value = 90 -> Ok(r.rest, Base("Boolean"))
            [] OTHER -> Err(InvalidFieldDescriptor)

parse_object_type(inp) ==
  LET r == be_u8(inp)
  IN IF ~IsOk(r) THEN r
     ELSE IF r.value # 76 THEN Err(InvalidFieldDescriptor)
     ELSE LET n == take_until(r.rest, <<59>>)
          IN IF ~IsOk(n) THEN n ELSE Ok(n.rest, Object(n.value))

\* parse_array_type reporting a failed element as Eof
ArrayOfEof(element) ==
  IF ~IsOk(element) THEN Err(Eof) ELSE Ok(element.rest, Array(element.value))

\* parse_array_type, given the outcome of its recursive call
\* parse_field_type(rest)
ArrayOf(element) ==
  IF ~IsOk(element) THEN element ELSE Ok(element.rest, Array(element.value))

\* a.or_else(|_| b): a when it is Ok, otherwise b
OrElse(a, b) == IF IsOk(a) THEN a ELSE b

RECURSIVE parse_field_type(_)
parse_array_type(inp) ==
  LET r == be_u8(inp)
  IN IF ~IsOk(r) THEN r
     ELSE IF r.value # 91 THEN Err(InvalidFieldDescriptor)
     ELSE ArrayOf(parse_field_type(r.rest))

parse_field_type(inp) ==
  OrElse(OrElse(parse_base_type(inp), parse_object_type(inp)), parse_array_type(inp))

parse_return_type(inp) ==
  LET r == be_u8(inp)
  IN IF ~IsOk(r) THEN r
     ELSE IF r.value = 86 THEN Ok(r.rest, Void)
     ELSE parse_field_type(r.rest)

MethodDescriptor(parameters, return_type) ==
  [parameters |-> parameters, return_type |-> return_type]

\* while let Ok((new_rest, field_type)) = parse_field_type(rest) { push }
RECURSIVE ParameterLoop(_, _)
ParameterLoop(rest, parameter_types) ==
  LET r == parse_field_type(rest)
  IN IF IsOk(r) THEN ParameterLoop(r.rest, Append(parameter_types, r.value))
     ELSE [rest |-> rest, parameter_types |-> parameter_types]

parse_method_descriptor(inp) ==
  LET open == be_u8(inp)
  IN IF ~IsOk(open) THEN open
     ELSE LET parameters == parse_field_type(open.rest)
          IN IF ~IsOk(parameters) THEN parameters
             ELSE LET loop == ParameterLoop(parameters.rest, <<parameters.value>>)
                      return_type == parse_return_type(loop.rest)
                  IN IF ~IsOk(return_type) THEN return_type
                     ELSE Ok(return_type.rest,
                             MethodDescriptor(loop.parameter_types, return_type.value))

\* ---------------------------------------------------------- constant pool
\* Constant values: [variant |-> <name>, <fields of the variant>].

\* ConstantTag::from_u8: the variant of a tag byte, "None" when it has none
ConstantTag_from_u8(value) ==
  CASE value = 1 -> "Utf8"
    [] value = 3 -> "Integer"
    [] value = 4 -> "Float"
    [] value = 5 -> "Long"
    [] value = 6 -> "Double"
    [] value = 7 -> "Class"
    [] value = 8 -> "String"
    [] value = 9 -> "Fieldref"
    [] value = 10 -> "Methodref"
    [] value = 11 -> "InterfaceMethodref"
    [] value = 12 -> "NameAndType"
    [] value = 15 -> "MethodHandle"
    [] value = 16 -> "MethodType"
    [] value = 17 -> "Dynamic"
    [] value = 18 -> "InvokeDynamic"
    [] value = 19 -> "Module"
    [] value = 20 -> "Package"
    [] OTHER -> "None"

Utf8(value) == [variant |-> "Utf8", value |-> value]

parse_utf8(inp) ==
  LET length == be_u16(inp)
  IN IF ~IsOk(length) THEN length
     ELSE LET value == bytes(length.rest, length.value)
          IN IF ~IsOk(value) THEN value ELSE Ok(value.rest, Utf8(value.value))

\* parse_integer, parse_float, parse_long, parse_double: one reader, one field
parse_number(variant, r) ==
  IF ~IsOk(r) THEN r ELSE Ok(r.rest, [variant |-> variant, value |-> r.value])

parse_integer(inp) == parse_number("Integer", be_i32(inp))

parse_float(inp) == parse_number("Float", be_f32(inp))

parse_long(inp) == parse_number("Long", be_i64(inp))

parse_double(inp) == parse_number("Double", be_f64(inp))

parse_class(inp) ==
  LET r == be_u16(inp)
  IN IF ~IsOk(r) THEN r ELSE Ok(r.rest, [variant |-> "Class", name_index |-> r.value])

parse_string(inp) ==
  LET r == be_u16(inp)
  IN IF ~IsOk(r) THEN r ELSE Ok(r.rest, [variant |-> "String", string_index |-> r.value])

\* parse_fieldref, parse_methodref, parse_interface_methodref
parse_ref(variant, inp) ==
  LET class_index == be_u16(inp)
  IN IF ~IsOk(class_index) THEN class_index
     ELSE LET name_and_type_index == be_u16(class_index.rest)
          IN IF ~IsOk(name_and_type_index) THEN name_and_type_index
             ELSE Ok(name_and_type_index.rest,
                     [variant |-> variant, class_index |-> class_index.value,
                      name_and_type_index |-> name_and_type_index.value])

parse_name_and_type(inp) ==
  LET name_index == be_u16(inp)
  IN IF ~IsOk(name_index) THEN name_index
     ELSE LET descriptor_index == be_u16(name_index.rest)
          IN IF ~IsOk(descriptor_index) THEN descriptor_index
             ELSE Ok(descriptor_index.rest,
                     [variant |-> "NameAndType", name_index |-> name_index.value,
                      descriptor_index |-> descriptor_index.value])

\* parse_method_handle reading reference_index before reference_kind
parse_method_handle_swapped(inp) ==
  LET reference_index == be_u16(inp)
  IN IF ~IsOk(reference_index) THEN reference_index
     ELSE LET reference_kind == be_u8(reference_index.rest)
          IN IF ~IsOk(reference_kind) THEN reference_kind
             ELSE Ok(reference_kind.rest,
                     [variant |-> "MethodHandle", reference_kind |-> reference_kind.value,
                      reference_index |-> reference_index.value])

parse_method_handle(inp) ==
  LET reference_kind == be_u8(inp)
  IN IF ~IsOk(reference_kind) THEN reference_kind
     ELSE LET reference_index == be_u16(reference_kind.rest)
          IN IF ~IsOk(reference_index) THEN reference_index
             ELSE Ok(reference_index.rest,
                     [variant |-> "MethodHandle", reference_kind |-> reference_kind.value,
                      reference_index |-> reference_index.value])

parse_method_type(inp) ==
  LET r == be_u16(inp)
  IN IF ~IsOk(r) THEN r
     ELSE Ok(r.rest, [variant |-> "MethodType", descriptor_index |-> r.value])

\* parse_dynamic, parse_invoke_dynamic
parse_dynamic(variant, inp) ==
  LET bootstrap_method_attr_index == be_u16(inp)
  IN IF ~IsOk(bootstrap_method_attr_index) THEN bootstrap_method_attr_index
     ELSE LET name_and_type_index == be_u16(bootstrap_method_attr_index.rest)
          IN IF ~IsOk(name_and_type_index) THEN name_and_type_index
             ELSE Ok(name_and_type_index.rest,
                     [variant |-> variant,
                      bootstrap_method_attr_index |-> bootstrap_method_attr_index.value,
                      name_and_type_index |-> name_and_type_index.value])

\* parse_module, parse_package
parse_module(variant, inp) ==
  LET r == be_u16(inp)
  IN IF ~IsOk(r) THEN r ELSE Ok(r.rest, [variant |-> variant, name_index |-> r.value])

parse_constant(inp) ==
  LET tag == be_u8(inp)
  IN IF ~IsOk(tag) THEN tag
     ELSE LET variant == ConstantTag_from_u8(tag.value)
          IN CASE variant = "None" -> Err(InvalidConstantTag(tag.value))
               [] variant = "Utf8" -> parse_utf8(tag.rest)
               [] variant = "Integer" -> parse_integer(tag.rest)
               [] variant = "Float" -> parse_float(tag.rest)
               [] variant = "Long" -> parse_long(tag.rest)
               [] variant = "Double" -> parse_double(tag.rest)
               [] variant = "Class" -> parse_class(tag.rest)
               [] variant = "String" -> parse_string(tag.rest)
               [] variant \in {"Fieldref", "Methodref", "InterfaceMethodref"} ->
                    parse_ref(variant, tag.rest)
               [] variant = "NameAndType" -> parse_name_and_type(tag.rest)
               [] variant = "MethodHandle" -> parse_method_handle(tag.rest)
               [] variant = "MethodType" -> parse_method_type(tag.rest)
               [] variant \in {"Dynamic", "InvokeDynamic"} -> parse_dynamic(variant, tag.rest)
               [] variant \in {"Module", "Package"} -> parse_module(variant, tag.rest)

\* ------------------------------------------------------------- attributes
\* Attribute values: Unknown {data} and Code {max_stack, max_locals, code,
\* exception_table, attributes}.

\* AttributeName::from_name: b"Code" is the one name of the table
AttributeName_from_name(name) ==
  IF name = <<67, 111, 100, 101>> THEN "Code" ELSE "None"

Unknown(data) == [attr |-> "Unknown", data |-> data]

ExceptionTableEntry(start_pc, end_pc, handler_pc, catch_type) ==
  [start_pc |-> start_pc, end_pc |-> end_pc, handler_pc |-> handler_pc,
   catch_type |-> catch_type]

\* `let (rest, value) = r?; K`: r is evaluated once; a failure is returned
\* as it is, a success is handed to the rest of the function
AndThen(r, K(_)) ==
  CHOOSE outcome \in {IF ~IsOk(v) THEN v ELSE K(v) : v \in {r}} : TRUE

parser_exception_table_entry(inp) ==
  AndThen(ReadOperands(<<"be_u16", "be_u16", "be_u16", "be_u16">>, inp, <<>>),
          LAMBDA r : Ok(r.rest, ExceptionTableEntry(r.value[1], r.value[2],
                                                    r.value[3], r.value[4])))

\* for _ in 0..exception_table_length { parser_exception_table_entry(input)? }
RECURSIVE ExceptionTableLoop(_, _, _)
ExceptionTableLoop(inp, n, exception_table) ==
  IF n = 0 THEN Ok(inp, exception_table)
  ELSE AndThen(parser_exception_table_entry(inp),
               LAMBDA entry : ExceptionTableLoop(entry.rest, n - 1,
                                                 Append(exception_table, entry.value)))

\* a name lookup that answers only the first call made on it
\* (the definition follows the comment of ResolveName)
\* constant_pool.get(attribute_name_index as usize - 1) matched against
\* Some(Constant::Utf8 { value }).  At index 0 the subtraction overflows: a
\* build with overflow checks panics, a build without them wraps to
\* usize::MAX, where get finds nothing.
ResolveNameOnce(pool, attribute_name_index, checks) ==
  IF call # "none" THEN Err(InvalidConstantPoolIndex(attribute_name_index))
  ELSE IF attribute_name_index = 0
  THEN IF checks THEN Panic ELSE Err(InvalidConstantPoolIndex(attribute_name_index))
  ELSE IF attribute_name_index <= Len(pool) /\ pool[attribute_name_index].variant = "Utf8"
  THEN Ok(<<>>, pool[attribute_name_index].value)
  ELSE Err(InvalidConstantPoolIndex(attribute_name_index))

ResolveName(pool, attribute_name_index, checks) ==
  IF attribute_name_index = 0
  THEN IF checks THEN Panic ELSE Err(InvalidConstantPoolIndex(attribute_name_index))
  ELSE IF attribute_name_index <= Len(pool) /\ pool[attribute_name_index].variant = "Utf8"
  THEN Ok(<<>>, pool[attribute_name_index].value)
  ELSE Err(InvalidConstantPoolIndex(attribute_name_index))

RECURSIVE parse_attribute(_, _, _)

\* for _ in 0..attributes_count { parse_attribute(input, constant_pool)? }:
\* the loop of parse_code, and the same loop of parse_field, parse_method
\* and parse_classfile
RECURSIVE AttributeLoop(_, _, _, _, _)
AttributeLoop(inp, pool, checks, n, attributes) ==
  IF n = 0 THEN Ok(inp, attributes)
  ELSE AndThen(parse_attribute(inp, pool, checks),
               LAMBDA attribute : AttributeLoop(attribute.rest, pool, checks, n - 1,
                                                Append(attributes, attribute.value)))

\* an attribute table that may be left out at the end of the input
AttributeTableOptional(inp, pool, checks) ==
  IF inp = <<>> THEN Ok(<<>>, <<>>)
  ELSE AndThen(be_u16(inp),
               LAMBDA attributes_count :
                 AttributeLoop(attributes_count.rest, pool, checks,
                               attributes_count.value, <<>>))

\* { let (input, attributes_count) = be_u16(input)?; <the loop> }
AttributeTable(inp, pool, checks) ==
  AndThen(be_u16(inp),
          LAMBDA attributes_count :
            AttributeLoop(attributes_count.rest, pool, checks, attributes_count.value, <<>>))

ExceptionTable(inp) ==
  AndThen(be_u16(inp),
          LAMBDA exception_table_length :
            ExceptionTableLoop(exception_table_length.rest,
                               exception_table_length.value, <<>>))

parse_code(inp, pool, checks) ==
  AndThen(ReadOperands(<<"be_u16", "be_u16">>, inp, <<>>), LAMBDA head :
  AndThen(be_u32(head.rest), LAMBDA code_length :
  AndThen(bytes(code_length.rest, usize_of_u32(code_length.value)), LAMBDA code :
  AndThen(ExceptionTable(code.rest), LAMBDA exception_table :
  AndThen(AttributeTable(exception_table.rest, pool, checks), LAMBDA attributes :
    Ok(attributes.rest,
       [attr |-> "Code",
        max_stack |-> head.value[1],
        max_locals |-> head.value[2],
        code |-> code.value,
        exception_table |-> exception_table.value,
        attributes |-> attributes.value]))))))

\* a Code arm that decodes inside the attribute_length bytes it cuts off
AttributeBodyBounded(name, inp, attribute_length, pool, checks) ==
  AndThen(bytes(inp, usize_of_u32(attribute_length)), LAMBDA data :
    IF AttributeName_from_name(name) = "Code"
    THEN AndThen(parse_code(data.value, pool, checks),
                 LAMBDA code : Ok(data.rest, code.value))
    ELSE Ok(data.rest, Unknown(data.value)))

\* the arms of `match AttributeName::from_name(name)`
AttributeBody(name, inp, attribute_length, pool, checks) ==
  IF AttributeName_from_name(name) = "Code" THEN parse_code(inp, pool, checks)
  ELSE AndThen(bytes(inp, usize_of_u32(attribute_length)),
               LAMBDA data : Ok(data.rest, Unknown(data.value)))

parse_attribute(inp, pool, checks) ==
  AndThen(be_u16(inp), LAMBDA attribute_name_index :
  AndThen(ResolveName(pool, attribute_name_index.value, checks), LAMBDA name :
  AndThen(be_u32(attribute_name_index.rest), LAMBDA attribute_length :
    AttributeBody(name.value, attribute_length.rest, attribute_length.value,
                  pool, checks))))

\* ------------------------------------------------ fields, methods, classes

\* u16 & u16 and u16 | u16, bit by bit from the lowest
RECURSIVE u16_and(_, _)
u16_and(a, b) ==
  IF a = 0 \/ b = 0 THEN 0
  ELSE (a % 2) * (b % 2) + 2 * u16_and(a \div 2, b \div 2)

RECURSIVE u16_or(_, _)
u16_or(a, b) ==
  IF a = 0 THEN b
  ELSE IF b = 0 THEN a
  ELSE (IF a % 2 = 1 \/ b % 2 = 1 THEN 1 ELSE 0) + 2 * u16_or(a \div 2, b \div 2)

\* a from_bits that keeps only the bits MethodAccessFlags names (0x1dff)
from_bits_truncate(bits) == [bits |-> u16_and(bits, 7679)]

\* FieldAccessFlags / MethodAccessFlags / ClassAccessFlags ::from_bits
from_bits(bits) == [bits |-> bits]

\* define_flags!: the operations every flag type gets
bits(self) == self.bits

contains(self, other) == u16_and(self.bits, other.bits) = other.bits

union(self, other) == from_bits(u16_or(self.bits, other.bits))

intersection(self, other) == from_bits(u16_and(self.bits, other.bits))

bitor(self, rhs) == union(self, rhs)

bitand(self, rhs) == intersection(self, rhs)

parse_field(inp, pool, checks) ==
  AndThen(ReadOperands(<<"be_u16", "be_u16", "be_u16">>, inp, <<>>), LAMBDA head :
  AndThen(AttributeTable(head.rest, pool, checks), LAMBDA attributes :
    Ok(attributes.rest,
       [access_flags |-> from_bits(head.value[1]),
        name_index |-> head.value[2],
        descriptor_index |-> head.value[3],
        attributes |-> attributes.value])))

parse_method(inp, pool, checks) ==
  AndThen(ReadOperands(<<"be_u16", "be_u16", "be_u16">>, inp, <<>>), LAMBDA head :
  AndThen(AttributeTable(head.rest, pool, checks), LAMBDA attributes :
    Ok(attributes.rest,
       [access_flags |-> from_bits(head.value[1]),
        name_index |-> head.value[2],
        descriptor_index |-> head.value[3],
        attributes |-> attributes.value])))

\* the loop running `for _ in 0..constant_pool_count`
ConstantIterationsFromZero(constant_pool_count) == constant_pool_count

\* the iterations of `for _ in 1..constant_pool_count`: none when the count
\* is 0 or 1
ConstantIterations(constant_pool_count) ==
  IF constant_pool_count <= 1 THEN 0 ELSE constant_pool_count - 1

RECURSIVE ConstantLoop(_, _, _)

\* the constant pool loop ending at a failed constant with what it has
ConstantLoopKeepsPartial(inp, n, pool) ==
  IF n = 0 THEN Ok(inp, pool)
  ELSE CHOOSE outcome \in
         {IF ~IsOk(constant) THEN Ok(inp, pool)
          ELSE ConstantLoop(constant.rest, n - 1, Append(pool, constant.value)) :
            constant \in {parse_constant(inp)}} : TRUE

ConstantLoop(inp, n, pool) ==
  IF n = 0 THEN Ok(inp, pool)
  ELSE AndThen(parse_constant(inp),
               LAMBDA constant : ConstantLoop(constant.rest, n - 1,
                                              Append(pool, constant.value)))

ConstantPool(inp) ==
  AndThen(be_u16(inp),
          LAMBDA constant_pool_count :
            ConstantLoop(constant_pool_count.rest,
                         ConstantIterations(constant_pool_count.value), <<>>))

RECURSIVE InterfaceLoop(_, _, _)
InterfaceLoop(inp, n, interfaces) ==
  IF n = 0 THEN Ok(inp, interfaces)
  ELSE AndThen(be_u16(inp),
               LAMBDA interface : InterfaceLoop(interface.rest, n - 1,
                                                Append(interfaces, interface.value)))

Interfaces(inp) ==
  AndThen(be_u16(inp),
          LAMBDA interfaces_count :
            InterfaceLoop(interfaces_count.rest, interfaces_count.value, <<>>))

RECURSIVE FieldLoop(_, _, _, _, _)
FieldLoop(inp, pool, checks, n, fields) ==
  IF n = 0 THEN Ok(inp, fields)
  ELSE AndThen(parse_field(inp, pool, checks),
               LAMBDA field : FieldLoop(field.rest, pool, checks, n - 1,
                                        Append(fields, field.value)))

Fields(inp, pool, checks) ==
  AndThen(be_u16(inp),
          LAMBDA fields_count :
            FieldLoop(fields_count.rest, pool, checks, fields_count.value, <<>>))

RECURSIVE MethodLoop(_, _, _, _, _)
MethodLoop(inp, pool, checks, n, methods) ==
  IF n = 0 THEN Ok(inp, methods)
  ELSE AndThen(parse_method(inp, pool, checks),
               LAMBDA method : MethodLoop(method.rest, pool, checks, n - 1,
                                          Append(methods, method.value)))

Methods(inp, pool, checks) ==
  AndThen(be_u16(inp),
          LAMBDA methods_count :
            MethodLoop(methods_count.rest, pool, checks, methods_count.value, <<>>))

\* the class body with this_class and super_class stored the other way round
ClassBodyExchanged(magic, versions, pool, inp, checks) ==
  AndThen(ReadOperands(<<"be_u16", "be_u16", "be_u16">>, inp, <<>>), LAMBDA head :
  AndThen(Interfaces(head.rest), LAMBDA interfaces :
  AndThen(Fields(interfaces.rest, pool, checks), LAMBDA fields :
  AndThen(Methods(fields.rest, pool, checks), LAMBDA methods :
  AndThen(AttributeTable(methods.rest, pool, checks), LAMBDA attributes :
    Ok(attributes.rest,
       [magic |-> magic,
        minor_version |-> versions[1],
        major_version |-> versions[2],
        constant_pool |-> pool,
        access_flags |-> from_bits(head.value[1]),
        this_class |-> head.value[3],
        super_class |-> head.value[2],
        interfaces |-> interfaces.value,
        fields |-> fields.value,
        methods |-> methods.value,
        attributes |-> attributes.value]))))))

\* parse_classfile after the constant pool: access_flags .. attributes
ClassBody(magic, versions, pool, inp, checks) ==
  AndThen(ReadOperands(<<"be_u16", "be_u16", "be_u16">>, inp, <<>>), LAMBDA head :
  AndThen(Interfaces(head.rest), LAMBDA interfaces :
  AndThen(Fields(interfaces.rest, pool, checks), LAMBDA fields :
  AndThen(Methods(fields.rest, pool, checks), LAMBDA methods :
  AndThen(AttributeTable(methods.rest, pool, checks), LAMBDA attributes :
    Ok(attributes.rest,
       [magic |-> magic,
        minor_version |-> versions[1],
        major_version |-> versions[2],
        constant_pool |-> pool,
        access_flags |-> from_bits(head.value[1]),
        this_class |-> head.value[2],
        super_class |-> head.value[3],
        interfaces |-> interfaces.value,
        fields |-> fields.value,
        methods |-> methods.value,
        attributes |-> attributes.value]))))))

parse_classfile(inp, checks) ==
  AndThen(be_u32(inp), LAMBDA magic :
  AndThen(ReadOperands(<<"be_u16", "be_u16">>, magic.rest, <<>>), LAMBDA versions :
  AndThen(ConstantPool(versions.rest), LAMBDA pool :
    ClassBody(magic.value, versions.value, pool.value, pool.rest, checks))))

\* ------------------------------------------------------------ input spaces

\* the sequences over S of length at most n
SeqsUpTo(S, n) == UNION {[1..k -> S] : k \in 0..n}

AllBytes == 0..255

\* operand bytes: zero, a small value, and values with the top bit set
OperandBytes == {0, 1, 254, 255}

MaxOperandLen == 5


\* ------------------------------------------------- the instruction decoder
\* The caller holds a code array, calls parse_instruction on it and, on
\* success, goes on with the remainder.

\* code arrays: any opcode, or wide and any opcode, then operand bytes
InitInstr ==
  /\ \/ input = <<>>
     \/ \E op \in AllBytes, k \in 0..MaxOperandLen :
          \E t \in [1..k -> OperandBytes] :
            input = <<op>> \o t \/ input = <<196, op>> \o t
  /\ constant_pool = <<>>
  /\ overflow_checks = FALSE
  /\ call = "none"
  /\ argument = <<>>
  /\ result = NoResult

ParseInstruction ==
  /\ call = "none"
  /\ call' = "parse_instruction"
  /\ result' = parse_instruction(input)
  /\ UNCHANGED <<input, constant_pool, overflow_checks, argument>>

NextInstruction ==
  /\ call = "parse_instruction"
  /\ IsOk(result)
  /\ result.rest # <<>>
  /\ input' = result.rest
  /\ call' = "none"
  /\ result' = NoResult
  /\ UNCHANGED <<constant_pool, overflow_checks, argument>>

NextInstr == ParseInstruction \/ NextInstruction

SpecInstr == InitInstr /\ [][NextInstr]_vars

\* C1: parse_instruction returns Ok or a typed InstructionParseError on
\* every byte sequence; it never panics.
C1_NeverPanics ==
  call = "parse_instruction" => result.tag \in {"Ok", "Err"}


\* --------------------------------------------------- the descriptor grammar
\* The caller holds the bytes of a Utf8 constant and hands them to
\* parse_field_type or to parse_method_descriptor.

\* '(' ')' 'D' 'I' 'L' ';' 'V' 'X' '['
DescriptorBytes == {40, 41, 68, 73, 76, 59, 86, 88, 91}

MaxDescriptorLen == 5

\* descriptors over DescriptorBytes, and any lead byte before a short tail
InitDesc ==
  /\ \/ \E k \in 0..MaxDescriptorLen : input \in [1..k -> DescriptorBytes]
     \/ \E b \in AllBytes, k \in 0..1 :
          \E t \in [1..k -> DescriptorBytes] : input = <<b>> \o t
  /\ constant_pool = <<>>
  /\ overflow_checks = FALSE
  /\ call = "none"
  /\ argument = <<>>
  /\ result = NoResult

ParseFieldType ==
  /\ call = "none"
  /\ call' = "parse_field_type"
  /\ result' = parse_field_type(input)
  /\ UNCHANGED <<input, constant_pool, overflow_checks, argument>>

ParseMethodDescriptor ==
  /\ call = "none"
  /\ call' = "parse_method_descriptor"
  /\ result' = parse_method_descriptor(input)
  /\ UNCHANGED <<input, constant_pool, overflow_checks, argument>>

NextDesc == ParseFieldType \/ ParseMethodDescriptor

SpecDesc == InitDesc /\ [][NextDesc]_vars

\* The descriptor bytes of a field type and of a method descriptor, as the
\* grammar writes them: the reference the claims compare the decoder with.

BaseLetter(name) ==
  CASE name = "Byte" -> 66 [] name = "Char" -> 67 [] name = "Double" -> 68
    [] name = "Float" -> 70 [] name = "Int" -> 73 [] name = "Long" -> 74
    [] name = "Short" -> 83 [] name = "Boolean" -> 90

BaseLeads == {66, 67, 68, 70, 73, 74, 83, 90}

BaseName(lead) == CHOOSE name \in {"Byte", "Char", "Double", "Float", "Int",
                                   "Long", "Short", "Boolean"} : BaseLetter(name) = lead

RECURSIVE FieldTypeBytes(_)
FieldTypeBytes(t) ==
  CASE t.ty = "Void" -> <<86>>
    [] t.ty = "Object" -> <<76>> \o t.name \o <<59>>
    [] t.ty = "Array" -> <<91>> \o FieldTypeBytes(t.elem)
    [] OTHER -> <<BaseLetter(t.ty)>>

RECURSIVE ParameterBytes(_)
ParameterBytes(ps) ==
  IF ps = <<>> THEN <<>> ELSE FieldTypeBytes(Head(ps)) \o ParameterBytes(Tail(ps))

MethodDescriptorBytes(ps, r) == <<40>> \o ParameterBytes(ps) \o <<41>> \o FieldTypeBytes(r)

SampleFieldTypes == {Base("Int"), Base("Double"), Object(<<88>>), Array(Base("Int"))}

\* the number of leading '[' of a descriptor
RECURSIVE ArrayDepth(_)
ArrayDepth(s) == IF s # <<>> /\ Head(s) = 91 THEN 1 + ArrayDepth(Tail(s)) ELSE 0

RECURSIVE Nest(_, _)
Nest(k, t) == IF k = 0 THEN t ELSE Array(Nest(k - 1, t))

\* what is left of s after the longest run of field types at its head
RECURSIVE SkipFieldTypes(_)
SkipFieldTypes(s) ==
  LET r == parse_field_type(s) IN IF IsOk(r) THEN SkipFieldTypes(r.rest) ELSE s

\* C3: every descriptor '(' P1..Pn ')' R, n >= 0, each Pi a field type and R
\* 'V' or a field type, parses to parameters <<P1..Pn>> and return type R
\* (Void for 'V') with an empty remainder.
C3_WellFormedDescriptorParses ==
  call = "parse_method_descriptor" =>
    \A ps \in SeqsUpTo(SampleFieldTypes, 2), r \in SampleFieldTypes \cup {Void} :
      input = MethodDescriptorBytes(ps, r) =>
        /\ IsOk(result)
        /\ result.rest = <<>>
        /\ result.value = MethodDescriptor(ps, r)

\* C4: parse_method_descriptor fails when the first byte is not '(' and when
\* the parameter list is not immediately followed by ')'.
C4_MalformedDescriptorFails ==
  call = "parse_method_descriptor" /\ input # <<>> =>
    LET after == SkipFieldTypes(Tail(input))
    IN (Head(input) # 40 \/ after = <<>> \/ Head(after) # 41) => result.tag = "Err"

\* C5: an input parse_field_type accepts is k >= 0 times '[' and then a base
\* letter or 'L' name ';'; the value is the base type or Object(name), name
\* the bytes before the first ';', under k Array layers, and the remainder
\* is what follows the parsed type.
C5_FieldTypeValueAndRemainder ==
  call = "parse_field_type" /\ IsOk(result) =>
    LET k == ArrayDepth(input)
        elem == Drop(input, k)
    IN /\ elem # <<>>
       /\ \/ /\ Head(elem) \in BaseLeads
             /\ result.value = Nest(k, Base(BaseName(Head(elem))))
             /\ result.rest = Drop(elem, 1)
          \/ /\ Head(elem) = 76
             /\ \E j \in 2..Len(elem) :
                  /\ elem[j] = 59
                  /\ \A i \in 2..(j - 1) : elem[i] # 59
                  /\ result.value = Nest(k, Object(SubSeq(elem, 2, j - 1)))
                  /\ result.rest = Drop(elem, j)

\* "[[[D" gives Array(Array(Array(Double)))
C5_Witness ==
  /\ call = "parse_field_type"
  /\ input = <<91, 91, 91, 68>>
  /\ IsOk(result)
  /\ result.value = Array(Array(Array(Base("Double"))))
  /\ result.rest = <<>>

FieldTypeLeads == BaseLeads \cup {76, 91}

\* C6: a descriptor whose lead byte, after any run of '[', is none of
\* B C D F I J S Z L [ fails with InvalidFieldDescriptor.
C6_UnmatchedLeadFails ==
  call = "parse_field_type" =>
    LET elem == Drop(input, ArrayDepth(input))
    IN elem # <<>> /\ Head(elem) \notin FieldTypeLeads =>
         IsErr(result, "InvalidFieldDescriptor")

\* "[[X" fails with InvalidFieldDescriptor
C6_Witness ==
  /\ call = "parse_field_type"
  /\ input = <<91, 91, 88>>
  /\ IsErr(result, "InvalidFieldDescriptor")

\* ------------------------------------------------- the constant decoder
\* The caller hands parse_constant the bytes at a constant pool entry.

MaxConstantTail == 4

MaxWideExtra == 1

\* any tag byte, then a short tail over OperandBytes or, for the 8-byte
\* shapes, at least 8 bytes over {0x00, 0xff}
InitConst ==
  /\ \/ input = <<>>
     \/ \E tag \in AllBytes, k \in 0..MaxConstantTail :
          \E t \in [1..k -> OperandBytes] : input = <<tag>> \o t
     \/ \E tag \in 0..21, k \in 8..(8 + MaxWideExtra) :
          \E t \in [1..k -> {0, 255}] : input = <<tag>> \o t
  /\ constant_pool = <<>>
  /\ overflow_checks = FALSE
  /\ call = "none"
  /\ argument = <<>>
  /\ result = NoResult

ParseConstant ==
  /\ call = "none"
  /\ call' = "parse_constant"
  /\ result' = parse_constant(input)
  /\ UNCHANGED <<input, constant_pool, overflow_checks, argument>>

NextConst == ParseConstant

SpecConst == InitConst /\ [][NextConst]_vars

\* equality of two constants, the variants compared first
SameConstant(a, b) == a.variant = b.variant /\ a = b

ValidTags == {1, 3, 4, 5, 6, 7, 8, 9, 10, 11, 12, 15, 16, 17, 18, 19, 20}

\* the bytes a constant of tag t takes after its tag, given the bytes s that
\* follow the tag (-1: s is too short to tell)
ShapeWidth(t, s) ==
  CASE t = 1 -> IF Len(s) < 2 THEN -1 ELSE 2 + U16(s[1], s[2])
    [] t \in {3, 4} -> 4
    [] t \in {5, 6} -> 8
    [] t \in {7, 8, 16, 19, 20} -> 2
    [] t \in {9, 10, 11, 12, 17, 18} -> 4
    [] t = 15 -> 3

\* the constant of tag t whose fields are the bytes s, big-endian and in
\* declared order
ShapeValue(t, s) ==
  CASE t = 1 -> [variant |-> "Utf8", value |-> SubSeq(s, 3, 2 + U16(s[1], s[2]))]
    [] t = 3 -> [variant |-> "Integer", value |-> I32(s[1], s[2], s[3], s[4])]
    [] t = 4 -> [variant |-> "Float", value |-> <<U16(s[1], s[2]), U16(s[3], s[4])>>]
    [] t = 5 -> [variant |-> "Long",
                 value |-> <<I16(s[1], s[2]), U16(s[3], s[4]), U16(s[5], s[6]), U16(s[7], s[8])>>]
    [] t = 6 -> [variant |-> "Double",
                 value |-> <<U16(s[1], s[2]), U16(s[3], s[4]), U16(s[5], s[6]), U16(s[7], s[8])>>]
    [] t = 7 -> [variant |-> "Class", name_index |-> U16(s[1], s[2])]
    [] t = 8 -> [variant |-> "String", string_index |-> U16(s[1], s[2])]
    [] t = 9 -> [variant |-> "Fieldref", class_index |-> U16(s[1], s[2]),
                 name_and_type_index |-> U16(s[3], s[4])]
    [] t = 10 -> [variant |-> "Methodref", class_index |-> U16(s[1], s[2]),
                  name_and_type_index |-> U16(s[3], s[4])]
    [] t = 11 -> [variant |-> "InterfaceMethodref", class_index |-> U16(s[1], s[2]),
                  name_and_type_index |-> U16(s[3], s[4])]
    [] t = 12 -> [variant |-> "NameAndType", name_index |-> U16(s[1], s[2]),
                  descriptor_index |-> U16(s[3], s[4])]
    [] t = 15 -> [variant |-> "MethodHandle", reference_kind |-> s[1],
                  reference_index |-> U16(s[2], s[3])]
    [] t = 16 -> [variant |-> "MethodType", descriptor_index |-> U16(s[1], s[2])]
    [] t = 17 -> [variant |-> "Dynamic", bootstrap_method_attr_index |-> U16(s[1], s[2]),
                  name_and_type_index |-> U16(s[3], s[4])]
    [] t = 18 -> [variant |-> "InvokeDynamic", bootstrap_method_attr_index |-> U16(s[1], s[2]),
                  name_and_type_index |-> U16(s[3], s[4])]
    [] t = 19 -> [variant |-> "Module", name_index |-> U16(s[1], s[2])]
    [] t = 20 -> [variant |-> "Package", name_index |-> U16(s[1], s[2])]

\* C7: parse_constant decides on the tag byte: a tag outside ValidTags fails
\* with InvalidConstantTag(tag) whatever follows; a tag inside it followed by
\* the bytes of its shape gives the variant of the tag, its fields read
\* big-endian in declared order, and the remainder is what follows the shape.
C7_ConstantByTag ==
  call = "parse_constant" /\ input # <<>> =>
    LET t == Head(input)
        s == Tail(input)
    IN IF t \notin ValidTags
       THEN IsErr(result, "InvalidConstantTag") /\ result.err.tag = t
       ELSE ShapeWidth(t, s) >= 0 /\ Len(s) >= ShapeWidth(t, s) =>
              /\ IsOk(result)
              /\ SameConstant(result.value, ShapeValue(t, s))
              /\ result.rest = Drop(s, ShapeWidth(t, s))

\* MethodHandle: 0x0f, kind 0x01, index 0xff00, one byte left over
C7_Witness ==
  /\ call = "parse_constant"
  /\ input = <<15, 1, 255, 0, 1>>
  /\ IsOk(result)
  /\ SameConstant(result.value,
                  [variant |-> "MethodHandle", reference_kind |-> 1, reference_index |-> 65280])
  /\ result.rest = <<1>>

\* ------------------------------------------------- the attribute decoder
\* The caller holds a constant pool and the bytes at an attribute_info.

\* "Code", "LineNumberTable", "SourceFile", and two near misses of "Code"
CodeName == <<67, 111, 100, 101>>

LineNumberTableName == <<76, 105, 110, 101, 78, 117, 109, 98, 101, 114, 84, 97, 98, 108, 101>>

SourceFileName == <<83, 111, 117, 114, 99, 101, 70, 105, 108, 101>>

SamplePool ==
  <<Utf8(CodeName), [variant |-> "Class", name_index |-> 1], Utf8(LineNumberTableName),
    Utf8(SourceFileName), Utf8(<<67, 111, 100>>), Utf8(<<67, 111, 100, 101, 115>>)>>

\* the pools handed in: none, "Code" alone, "Code" and a Class, all of it
SamplePools == {Take(SamplePool, n) : n \in {0, 1, 2, Len(SamplePool)}}

\* attribute_name_index bytes: 0 .. 7, and two whose high byte is set
NameIndexBytes == {<<0, i>> : i \in 0..7} \cup {<<1, 0>>, <<1, 1>>}

MaxPayload == 3

\* attribute_length bytes: 0 .. MaxPayload + 1, and values of 2^8, 2^16 and
\* 2^31 and above
LengthBytes ==
  {<<0, 0, 0, n>> : n \in 0..(MaxPayload + 1)}
  \cup {<<0, 0, 1, 0>>, <<0, 1, 0, 0>>, <<128, 0, 0, 0>>, <<255, 255, 255, 255>>}

\* nested attributes: an unknown one ("Cod", one byte), a Code with nothing
\* in it, a LineNumberTable with one entry
SampleUnknown == <<0, 5, 0, 0, 0, 1, 7>>

SampleEmptyCode == <<0, 1, 0, 0, 0, 12, 0, 0, 0, 0, 0, 0, 0, 0, 0, 0, 0, 0>>

SampleLineNumberTable == <<0, 3, 0, 0, 0, 6, 0, 1, 0, 0, 0, 1>>

\* attributes_count and what follows it
SampleAttributeTables ==
  {<<0, 0>>, <<0, 1>> \o SampleUnknown, <<0, 1>> \o SampleEmptyCode,
   <<0, 1>> \o SampleLineNumberTable, <<0, 2>> \o SampleUnknown,
   <<0, 0>> \o SampleUnknown}

\* the body of a Code attribute: max_stack, max_locals, code_length, code,
\* exception_table_length, exception table, attributes
SampleCodeBodies ==
  {max_stack \o <<0, 2>> \o code \o exception_table \o attributes :
     max_stack \in {<<0, 1>>, <<255, 255>>},
     code \in {<<0, 0, 0, 0>>, <<0, 0, 0, 2, 42, 177>>},
     exception_table \in {<<0, 0>>, <<0, 1, 0, 0, 0, 1, 0, 2, 0, 3>>},
     attributes \in SampleAttributeTables}

\* be_u32 of a length below 256
LengthOf(body) == <<0, 0, 0, Len(body)>>

InitAttr ==
  /\ \/ \E name \in NameIndexBytes, length \in LengthBytes, k \in 0..MaxPayload :
          \E data \in [1..k -> {0, 255}] :
            \/ input = name \o length \o data
            \/ \E cut \in 0..5 : input = Take(name \o length, cut)
     \/ \E body \in SampleCodeBodies, rest \in {<<>>, <<18, 52>>} :
          \E length \in {<<0, 0, 0, 0>>, LengthOf(body), <<0, 0, 0, 255>>} :
            \E cut \in 0..(6 + Len(body) + Len(rest)) :
              input = Take(<<0, 1>> \o length \o body \o rest, cut)
  /\ constant_pool \in SamplePools
  /\ overflow_checks \in BOOLEAN
  /\ call = "none"
  /\ argument = <<>>
  /\ result = NoResult

ParseAttribute ==
  /\ call = "none"
  /\ call' = "parse_attribute"
  /\ result' = parse_attribute(input, constant_pool, overflow_checks)
  /\ UNCHANGED <<input, constant_pool, overflow_checks, argument>>

NextAttr == ParseAttribute

SpecAttr == InitAttr /\ [][NextAttr]_vars

\* the attribute_name_index, attribute_length and payload of the input
NameIndexOf(inp) == U16(inp[1], inp[2])

\* C2: when attribute_name_index is 0, beyond the pool, or designates a
\* constant that is not Utf8, parse_attribute returns
\* Err(InvalidConstantPoolIndex(attribute_name_index)); it does not panic.
C2_BadNameIndexIsTypedError ==
  call = "parse_attribute" /\ Len(input) >= 2 =>
    LET index == NameIndexOf(input)
    IN (index = 0 \/ index > Len(constant_pool)
          \/ constant_pool[index].variant # "Utf8") =>
         IsErr(result, "InvalidConstantPoolIndex") /\ result.err.index = index

\* the names of the known-name table of the specification
KnownNames == {CodeName, LineNumberTableName, SourceFileName}

\* the attribute name resolves to the Utf8 constant n
ResolvesTo(n) ==
  /\ Len(input) >= 2
  /\ NameIndexOf(input) \in 1..Len(constant_pool)
  /\ constant_pool[NameIndexOf(input)] = Utf8(n)

\* C9: the resolved name selects the sub-decoder by exact match: "Code" gives
\* a Code attribute, "LineNumberTable" a LineNumberTable, "SourceFile" a
\* SourceFile; only a name outside the table gives Unknown.
C9_OnlyUnknownNamesGiveUnknown ==
  call = "parse_attribute" /\ IsOk(result) =>
    /\ ResolvesTo(CodeName) => result.value.attr = "Code"
    /\ ResolvesTo(LineNumberTableName) => result.value.attr = "LineNumberTable"
    /\ ResolvesTo(SourceFileName) => result.value.attr = "SourceFile"
    /\ result.value.attr = "Unknown" => \A n \in KnownNames : ~ResolvesTo(n)

\* C11: the Unknown value produced by parse_attribute records the
\* attribute_name_index read from the input together with the payload, so
\* that unknown attributes with equal payloads and different names differ.
C11_UnknownRecordsNameIndex ==
  (call = "parse_attribute" /\ IsOk(result) /\ result.value.attr = "Unknown") =>
    /\ "attribute_name_index" \in DOMAIN result.value
    /\ result.value.attribute_name_index = NameIndexOf(input)

\* C10: for a name outside the known-name table and a complete 6-byte
\* header, parse_attribute gives Unknown with exactly the next
\* attribute_length bytes and the remainder after them when that many bytes
\* follow, and fails with Eof when fewer do.
C10_UnknownPayload ==
  call = "parse_attribute" /\ Len(input) >= 6
    /\ (\E i \in 1..Len(constant_pool) : i = NameIndexOf(input)
          /\ constant_pool[i].variant = "Utf8" /\ constant_pool[i].value \notin KnownNames) =>
      LET high == U16(input[3], input[4])
          low == U16(input[5], input[6])
      IN IF high = 0 /\ Len(input) - 6 >= low
         THEN /\ IsOk(result)
              /\ result.value = Unknown(SubSeq(input, 7, 6 + low))
              /\ result.rest = Drop(input, 6 + low)
         ELSE IsEof(result)

\* "Cod", attribute_length 2, three bytes follow: two of payload, one left
C10_Witness ==
  /\ call = "parse_attribute"
  /\ input = <<0, 5, 0, 0, 0, 2, 255, 0, 255>>
  /\ constant_pool = SamplePool
  /\ IsOk(result)
  /\ result.value = Unknown(<<255, 0>>)
  /\ result.rest = <<255>>

\* ------------------------------------------------- the class file decoder
\* The caller holds the bytes of a class file and hands them to
\* parse_classfile.

\* cp_info samples: Utf8 "X", Utf8 "Code", Long 1, Class #1, Integer -1
SampleConstants ==
  {<<1, 0, 1, 88>>, <<1, 0, 4, 67, 111, 100, 101>>, <<5, 0, 0, 0, 0, 0, 0, 0, 1>>,
   <<7, 0, 1>>, <<3, 255, 255, 255, 255>>}

MaxConstants == 2

MaxPoolCount == 4

RECURSIVE Flatten(_)
Flatten(ss) == IF ss = <<>> THEN <<>> ELSE Head(ss) \o Flatten(Tail(ss))

\* interfaces: none, or #2
SampleInterfaces == {<<0, 0>>, <<0, 1, 0, 2>>}

\* fields: none, or one field (flags 0x0002, name #1, descriptor #1) with
\* one attribute named #1 holding one byte
SampleFields ==
  {<<0, 0>>, <<0, 1, 0, 2, 0, 1, 0, 1, 0, 1>> \o <<0, 1, 0, 0, 0, 1, 7>>}

\* methods: none, or one method (flags 0x0001, name #1, descriptor #1) with
\* one attribute named #2 holding a Code body
SampleMethods ==
  {<<0, 0>>,
   <<0, 1, 0, 1, 0, 1, 0, 1, 0, 1>>
     \o <<0, 2, 0, 0, 0, 13, 0, 1, 0, 1, 0, 0, 0, 1, 177, 0, 0, 0, 0>>}

\* class attributes: none, or one attribute named #1 holding no byte
SampleAttributes == {<<0, 0>>, <<0, 1, 0, 1, 0, 0, 0, 0>>}

\* magic 0xCAFEBABE or 0, version 0.65, constant_pool_count, cp_info
\* entries (as many as the count says, or not), access_flags 0x0021,
\* this_class #2, super_class 0, and the four tables
InitClass ==
  /\ \E magic \in {<<202, 254, 186, 190>>, <<0, 0, 0, 0>>},
        count \in 0..MaxPoolCount, k \in 0..MaxConstants :
       \E constants \in [1..k -> SampleConstants] :
         \E interfaces \in SampleInterfaces, fields \in SampleFields,
            methods \in SampleMethods, attributes \in SampleAttributes :
           input = magic \o <<0, 0, 0, 65>> \o <<0, count>> \o Flatten(constants)
                     \o <<0, 33, 0, 2, 0, 0>> \o interfaces \o fields \o methods
                     \o attributes
  /\ constant_pool = <<>>
  /\ overflow_checks \in BOOLEAN
  /\ call = "none"
  /\ argument = <<>>
  /\ result = NoResult

ParseClassfile ==
  /\ call = "none"
  /\ call' = "parse_classfile"
  /\ result' = parse_classfile(input, overflow_checks)
  /\ UNCHANGED <<input, constant_pool, overflow_checks, argument>>

NextClass == ParseClassfile

SpecClass == InitClass /\ [][NextClass]_vars

\* the bytes a constant takes in the class file, tag included
EncodedSize(constant) ==
  CASE constant.variant = "Utf8" -> 3 + Len(constant.value)
    [] constant.variant \in {"Integer", "Float"} -> 5
    [] constant.variant \in {"Long", "Double"} -> 9
    [] constant.variant \in {"Class", "String", "MethodType", "Module", "Package"} -> 3
    [] constant.variant = "MethodHandle" -> 4
    [] OTHER -> 5

\* where the i-th entry of the pool starts in the class file: after the 10
\* bytes up to constant_pool_count and the entries before it
RECURSIVE EntryOffset(_, _)
EntryOffset(pool, i) ==
  IF i = 1 THEN 10 ELSE EntryOffset(pool, i - 1) + EncodedSize(pool[i - 1])

\* C8: when parse_classfile succeeds its pool holds constant_pool_count - 1
\* constants (none when the count is 0 or 1), the constant at index i being
\* the i-th entry of the input, in order; a Long or Double takes one index.
C8_PoolHoldsCountMinusOne ==
  call = "parse_classfile" /\ IsOk(result) =>
    LET count == U16(input[9], input[10])
        pool == result.value.constant_pool
    IN /\ Len(pool) = IF count \in {0, 1} THEN 0 ELSE count - 1
       /\ \A i \in 1..Len(pool) :
            LET entry == parse_constant(Drop(input, EntryOffset(pool, i)))
            IN IsOk(entry) /\ SameConstant(entry.value, pool[i])

\* count 3: a Long at index 1 and the Utf8 "X" right after it at index 2
C8_Witness ==
  /\ call = "parse_classfile"
  /\ IsOk(result)
  /\ U16(input[9], input[10]) = 3
  /\ Len(result.value.constant_pool) = 2
  /\ SameConstant(result.value.constant_pool[1], [variant |-> "Long", value |-> <<0, 0, 0, 1>>])
  /\ SameConstant(result.value.constant_pool[2], Utf8(<<88>>))

\* count 0: no constant is decoded
C8_WitnessCountZero ==
  /\ call = "parse_classfile"
  /\ IsOk(result)
  /\ U16(input[9], input[10]) = 0
  /\ result.value.constant_pool = <<>>


\* ---------------------------------------------------- the byte cursor calls
\* The caller holds a byte slice and calls one reader of parser/primitive.rs
\* on it.

\* short inputs are drawn over ShortBytes, longer ones over LongBytes
ShortBytes == {0, 1, 127, 128, 255}

LongBytes == {0, 128, 255}

MaxShortLen == 4

MaxLongLen == 9

\* the delimiters handed to take_until: one or two bytes
Delims == [1..1 -> LongBytes] \cup [1..2 -> LongBytes]

InitPrim ==
  /\ \/ \E k \in 0..MaxShortLen : input \in [1..k -> ShortBytes]
     \/ \E k \in (MaxShortLen + 1)..MaxLongLen : input \in [1..k -> LongBytes]
  /\ constant_pool = <<>>
  /\ overflow_checks = FALSE
  /\ call = "none"
  /\ argument = <<>>
  /\ result = NoResult

\* a reader of one argument has run on input
Applied(name, outcome) ==
  /\ call = "none"
  /\ call' = name
  /\ result' = outcome
  /\ UNCHANGED <<input, constant_pool, overflow_checks, argument>>

BeU8 == Applied("be_u8", be_u8(input))

BeU16 == Applied("be_u16", be_u16(input))

BeU32 == Applied("be_u32", be_u32(input))

BeU64 == Applied("be_u64", be_u64(input))

BeI8 == Applied("be_i8", be_i8(input))

BeI16 == Applied("be_i16", be_i16(input))

BeI32 == Applied("be_i32", be_i32(input))

BeI64 == Applied("be_i64", be_i64(input))

BeF32 == Applied("be_f32", be_f32(input))

BeF64 == Applied("be_f64", be_f64(input))

Bytes ==
  /\ call = "none"
  /\ \E length \in 0..(MaxLongLen + 1) :
       /\ argument' = <<length>>
       /\ result' = bytes(input, length)
  /\ call' = "bytes"
  /\ UNCHANGED <<input, constant_pool, overflow_checks>>

TakeUntil ==
  /\ call = "none"
  /\ \E delim \in Delims :
       /\ argument' = <<delim>>
       /\ result' = take_until(input, delim)
  /\ call' = "take_until"
  /\ UNCHANGED <<input, constant_pool, overflow_checks>>

NextPrim ==
  \/ BeU8 \/ BeU16 \/ BeU32 \/ BeU64
  \/ BeI8 \/ BeI16 \/ BeI32 \/ BeI64
  \/ BeF32 \/ BeF64
  \/ Bytes
  \/ TakeUntil

SpecPrim == InitPrim /\ [][NextPrim]_vars

\* the width in bytes of a fixed-width reader
WidthOf(name) ==
  CASE name \in {"be_u8", "be_i8"} -> 1
    [] name \in {"be_u16", "be_i16"} -> 2
    [] name \in {"be_u32", "be_i32", "be_f32"} -> 4
    [] name \in {"be_u64", "be_i64", "be_f64"} -> 8

FixedWidthReaders ==
  {"be_u8", "be_u16", "be_u32", "be_u64", "be_i8", "be_i16", "be_i32", "be_i64",
   "be_f32", "be_f64"}

\* s is t without its first n bytes
IsSuffixAfter(s, t, n) ==
  /\ Len(s) = Len(t) - n
  /\ \A i \in 1..Len(s) : s[i] = t[i + n]

\* C12: a fixed-width reader of width N fails with Eof exactly when the input
\* has fewer than N bytes, and otherwise returns as remainder the input
\* without its first N bytes.
C12_FixedWidthEofAndRemainder ==
  call \in FixedWidthReaders =>
    IF Len(input) < WidthOf(call) THEN IsEof(result)
    ELSE IsOk(result) /\ IsSuffixAfter(result.rest, input, WidthOf(call))

C12_Witness ==
  /\ call = "be_u16"
  /\ input = <<1, 127, 128>>
  /\ IsOk(result)
  /\ result.rest = <<128>>

\* the k-th big-endian 16-bit group of the input, as an unsigned number
Group(inp, k) == 256 * inp[2 * k - 1] + inp[2 * k]

\* 2^16 when the top bit of the first byte is set, else 0: what two's
\* complement takes off the most significant group
TopBitWeight(inp) == IF inp[1] >= 128 THEN 65536 ELSE 0

\* the big-endian reading of the first bytes of the input, in the
\* representation of the reader's value
BigEndian(name, inp) ==
  CASE name = "be_u8" -> inp[1]
    [] name = "be_i8" -> inp[1] - (IF inp[1] >= 128 THEN 256 ELSE 0)
    [] name = "be_u16" -> Group(inp, 1)
    [] name = "be_i16" -> Group(inp, 1) - TopBitWeight(inp)
    [] name = "be_u32" -> <<Group(inp, 1), Group(inp, 2)>>
    [] name = "be_i32" -> (Group(inp, 1) - TopBitWeight(inp)) * 65536 + Group(inp, 2)
    [] name = "be_u64" -> <<Group(inp, 1), Group(inp, 2), Group(inp, 3), Group(inp, 4)>>
    [] name = "be_i64" -> <<Group(inp, 1) - TopBitWeight(inp), Group(inp, 2),
                            Group(inp, 3), Group(inp, 4)>>

IntegerReaders ==
  {"be_u8", "be_u16", "be_u32", "be_u64", "be_i8", "be_i16", "be_i32", "be_i64"}

\* minus one in the representation of the signed reader's value
MinusOne(name) ==
  IF name = "be_i64" THEN <<-1, 65535, 65535, 65535>> ELSE -1

\* C13: on success an integer reader returns the big-endian reading of the
\* first N bytes, unsigned for be_u*, two's complement for be_i*; bytes that
\* are all 0xFF read as -1 at every signed width.
C13_BigEndianValue ==
  call \in IntegerReaders /\ IsOk(result) =>
    /\ result.value = BigEndian(call, input)
    /\ (call \in {"be_i8", "be_i16", "be_i32", "be_i64"}
          /\ \A i \in 1..WidthOf(call) : input[i] = 255)
         => result.value = MinusOne(call)

C13_Witness ==
  /\ call = "be_i16"
  /\ input = <<255, 128>>
  /\ IsOk(result)
  /\ result.value = -128

\* C14: bytes(input, n) fails with Eof exactly when n > len(input);
\* otherwise the value is the first n bytes, the rest is what remains, and
\* the value followed by the rest is the input.
C14_BytesSplits ==
  call = "bytes" =>
    LET n == argument[1]
    IN IF n > Len(input) THEN IsEof(result)
       ELSE /\ IsOk(result)
            /\ Len(result.value) = n
            /\ \A i \in 1..n : result.value[i] = input[i]
            /\ IsSuffixAfter(result.rest, input, n)
            /\ result.value \o result.rest = input
            /\ n = Len(input) => result.rest = <<>>
            /\ n = 0 => result.value = <<>> /\ result.rest = input

C14_Witness ==
  /\ call = "bytes"
  /\ input = <<1, 127, 128>>
  /\ argument = <<2>>
  /\ IsOk(result)
  /\ result.value = <<1, 127>>
  /\ result.rest = <<128>>

\* delim occurs in inp at offset i (0-based)
OccursAt(inp, delim, i) ==
  /\ i + Len(delim) <= Len(inp)
  /\ \A j \in 1..Len(delim) : inp[i + j] = delim[j]

\* C15: take_until(input, delim) with a non-empty delim returns the prefix
\* before the first occurrence of delim and the remainder after that
\* occurrence; it fails with Eof exactly when delim does not occur.
C15_TakeUntilFirstOccurrence ==
  call = "take_until" =>
    LET delim == argument[1]
    IN IF \A i \in 0..Len(input) : ~OccursAt(input, delim, i) THEN IsEof(result)
       ELSE /\ IsOk(result)
            /\ result.value \o delim \o result.rest = input
            /\ \A i \in 0..(Len(result.value) - 1) : ~OccursAt(input, delim, i)

C15_Witness ==
  /\ call = "take_until"
  /\ input = <<0, 255, 0, 255, 0>>
  /\ argument = <<(<<255, 0>>)>>
  /\ IsOk(result)
  /\ result.value = <<0>>
  /\ result.rest = <<255, 0>>


\* ----------------------------------------------- the instruction table
\* the inner opcodes the wide arm widens, other than iinc, and the variant
\* each one gives
WideIndexOpcodes == {21, 22, 23, 24, 25, 54, 55, 56, 57, 58, 169}

WideVariant(b) ==
  CASE b = 21 -> "WideIload"
    [] b = 22 -> "WideLload"
    [] b = 23 -> "WideFload"
    [] b = 24 -> "WideDload"
    [] b = 25 -> "WideAload"
    [] b = 54 -> "WideIstore"
    [] b = 55 -> "WideLstore"
    [] b = 56 -> "WideFstore"
    [] b = 57 -> "WideDstore"
    [] b = 58 -> "WideAstore"
    [] b = 169 -> "WideRet"

\* s without its first n bytes
After(s, n) == [i \in 1..(Len(s) - n) |-> s[i + n]]

\* C16: 0xc4, a wideable inner opcode other than iinc and at least 2 more
\* bytes give the matching Wide* instruction with the big-endian u16 index
\* and consume 4 bytes; 0xc4, iinc and at least 4 more bytes give
\* WideIinc(u16 index, i16 constant) and consume 6 bytes.
C16_WideDecodesWidenedShape ==
  (call = "parse_instruction" /\ Len(input) >= 2 /\ input[1] = 196) =>
    /\ (input[2] \in WideIndexOpcodes /\ Len(input) >= 4) =>
         /\ IsOk(result)
         /\ result.value = Instr(WideVariant(input[2]),
                                 <<BigEndian("be_u16", After(input, 2))>>)
         /\ IsSuffixAfter(result.rest, input, 4)
    /\ (input[2] = 132 /\ Len(input) >= 6) =>
         /\ IsOk(result)
         /\ result.value = Instr("WideIinc",
                                 <<BigEndian("be_u16", After(input, 2)),
                                   BigEndian("be_i16", After(input, 4))>>)
         /\ IsSuffixAfter(result.rest, input, 6)

C16_Witness ==
  /\ call = "parse_instruction"
  /\ input = <<196, 132, 1, 0, 255, 255, 0>>
  /\ IsOk(result)
  /\ result.value = Instr("WideIinc", <<256, -1>>)
  /\ result.rest = <<0>>

\* C17: 0xc4 followed by a byte b outside the wideable set fails with
\* UnknownInstruction(b), whatever bytes follow b.
C17_WideNonWideableIsUnknown ==
  (call = "parse_instruction" /\ Len(input) >= 2 /\ input[1] = 196
     /\ input[2] \notin WideIndexOpcodes \cup {132}) =>
    IsErr(result, "UnknownInstruction") /\ result.err.opcode = input[2]

\* C19: a first byte b from 0xca to 0xff fails with UnknownInstruction(b)
\* whatever bytes follow, and the empty input fails with Eof.
C19_UndefinedOpcodeAndEmptyInput ==
  call = "parse_instruction" =>
    /\ input = <<>> => IsEof(result)
    /\ (Len(input) >= 1 /\ input[1] >= 202) =>
         IsErr(result, "UnknownInstruction") /\ result.err.opcode = input[1]

C19_Witness ==
  /\ call = "parse_instruction"
  /\ input = <<202, 0, 255>>
  /\ IsErr(result, "UnknownInstruction")
  /\ result.err.opcode = 202


\* the opcodes of the table: 0x00..0xc9 without tableswitch, lookupswitch
\* and wide
TableOpcodes == (0..201) \ {170, 171, 196}

\* iload..aload, istore..astore, ret: one local-variable slot
LocalSlotOpcodes == (21..25) \cup (54..58) \cup {169}

\* ldc_w, ldc2_w, getstatic..invokestatic, new, anewarray, checkcast,
\* instanceof: one constant pool index
PoolReferenceOpcodes == {19, 20} \cup (178..184) \cup {187, 189, 192, 193}

\* if<cond>, if_icmp<cond>, if_acmp<cond>, goto, jsr, ifnull, ifnonnull
BranchOpcodes == (153..168) \cup {198, 199}

\* the operand shape the instruction set fixes for an opcode: the readers
\* of its operands, in order
ShapeOf(op) ==
  CASE op = 16 -> <<"be_i8">>
    [] op = 17 -> <<"be_i16">>
    [] op = 18 -> <<"be_u8">>
    [] op \in LocalSlotOpcodes -> <<"be_u8">>
    [] op \in PoolReferenceOpcodes -> <<"be_u16">>
    [] op \in BranchOpcodes -> <<"be_i16">>
    [] op \in {200, 201} -> <<"be_i32">>
    [] op = 132 -> <<"be_u8", "be_i8">>
    [] op \in {185, 186} -> <<"be_u16", "be_u8", "be_u8">>
    [] op = 188 -> <<"be_u8">>
    [] op = 197 -> <<"be_u16", "be_u8">>
    [] OTHER -> <<>>

\* the same with ldc (0x12) counted among the pool references read as u16
ShapeWithWideLdc(op) == IF op = 18 THEN <<"be_u16">> ELSE ShapeOf(op)

RECURSIVE OperandWidth(_)
OperandWidth(shape) ==
  IF shape = <<>> THEN 0 ELSE WidthOf(Head(shape)) + OperandWidth(Tail(shape))

\* the operands of the shape, read big-endian from inp
RECURSIVE OperandValues(_, _)
OperandValues(shape, inp) ==
  IF shape = <<>> THEN <<>>
  ELSE <<BigEndian(Head(shape), inp)>>
         \o OperandValues(Tail(shape), After(inp, WidthOf(Head(shape))))

\* the operand positions whose byte is read and not kept: the trailing
\* bytes of invokeinterface and invokedynamic
Discarded(op) ==
  CASE op = 185 -> {3}
    [] op = 186 -> {2, 3}
    [] OTHER -> {}

\* with the opcode and the bytes of the shape present, decoding succeeds,
\* consumes the opcode and the operands, and holds the operands of the shape
DecodesWithShape(shape) ==
  Len(input) >= 1 + OperandWidth(shape) =>
    /\ IsOk(result)
    /\ IsSuffixAfter(result.rest, input, 1 + OperandWidth(shape))
    /\ Len(result.value.args) = Len(shape)
    /\ \A i \in (1..Len(shape)) \ Discarded(input[1]) :
         result.value.args[i] = OperandValues(shape, After(input, 1))[i]

\* C18 (as amended): every opcode 0x00..0xc9 other than 0xaa, 0xab and 0xc4
\* decodes, given its operand bytes, consuming 1 + operand-width bytes, with
\* the shape fixed for that opcode: u8 slot for the short load/store/ret
\* forms, u16 pool index for pool references except ldc, whose index is u8,
\* i16 for goto/jsr/if*, i32 for goto_w/jsr_w, i8 for bipush, i16 for
\* sipush, u8 then i8 for iinc; 0xa7 0xff 0xfe decodes to Goto(-2).
C18_OperandShapeByOpcode ==
  (call = "parse_instruction" /\ Len(input) >= 1 /\ input[1] \in TableOpcodes) =>
    /\ DecodesWithShape(ShapeOf(input[1]))
    /\ (Len(input) >= 3 /\ input[1] = 167 /\ input[2] = 255 /\ input[3] = 254) =>
         result.value = Instr("Goto", <<-2>>)

C18_Witness ==
  /\ call = "parse_instruction"
  /\ input = <<167, 255, 254>>
  /\ IsOk(result)
  /\ result.value = Instr("Goto", <<-2>>)
  /\ result.rest = <<>>

\* C18 (as stated): the same with every pool reference, ldc included, read
\* as a u16 pool index.
C18_PoolReferencesAllU16 ==
  (call = "parse_instruction" /\ Len(input) >= 1 /\ input[1] \in TableOpcodes) =>
    DecodesWithShape(ShapeWithWideLdc(input[1]))


\* ------------------------------------------------- the class file tables
\* the big-endian u16 at byte offset off of the input
U16At(off) == 256 * input[off + 1] + input[off + 2]

\* the bytes an attribute takes in the class file: the 6-byte header and
\* the payload of an Unknown, or the body of a Code
RECURSIVE AttributeSize(_)
RECURSIVE AttributesSize(_)
AttributeSize(a) ==
  IF a.attr = "Unknown" THEN 6 + Len(a.data)
  ELSE 6 + 8 + Len(a.code) + 2 + 8 * Len(a.exception_table)
         + 2 + AttributesSize(a.attributes)

AttributesSize(as) ==
  IF as = <<>> THEN 0 ELSE AttributeSize(Head(as)) + AttributesSize(Tail(as))

\* the bytes a sequence of fields or methods takes: per member the three
\* u16 of its head, its attributes_count and its attributes
RECURSIVE MembersSize(_)
MembersSize(ms) ==
  IF ms = <<>> THEN 0
  ELSE 8 + AttributesSize(Head(ms).attributes) + MembersSize(Tail(ms))

\* the members decoded at a table whose count is at offset off: as many as
\* the count, each holding the name_index and descriptor_index found where
\* it starts; an attribute that opens a member is a Code exactly when its
\* name index designates the Utf8 constant "Code" of the pool
MembersMatch(ms, off, pool) ==
  /\ Len(ms) = U16At(off)
  /\ \A i \in 1..Len(ms) :
       LET start == off + 2 + MembersSize(SubSeq(ms, 1, i - 1))
       IN /\ ms[i].name_index = U16At(start + 2)
          /\ ms[i].descriptor_index = U16At(start + 4)
          /\ Len(ms[i].attributes) = U16At(start + 6)
          /\ Len(ms[i].attributes) >= 1 =>
               LET name == pool[U16At(start + 8)]
               IN (ms[i].attributes[1].attr = "Code")
                    <=> (name.variant = "Utf8" /\ name.value = CodeName)

ElementAt(kind, inp, pool, checks) ==
  CASE kind = "constant" -> parse_constant(inp)
    [] kind = "interface" -> be_u16(inp)
    [] kind = "field" -> parse_field(inp, pool, checks)
    [] kind = "method" -> parse_method(inp, pool, checks)
    [] kind = "attribute" -> parse_attribute(inp, pool, checks)

\* n elements in a row from inp: what is left after them, or the outcome of
\* the first one that does not decode
RECURSIVE SkipElements(_, _, _, _, _)
SkipElements(kind, inp, n, pool, checks) ==
  IF n = 0 THEN Ok(inp, <<>>)
  ELSE CHOOSE outcome \in
         {IF IsOk(e) THEN SkipElements(kind, e.rest, n - 1, pool, checks) ELSE e :
            e \in {ElementAt(kind, inp, pool, checks)}} : TRUE

\* a u16 count and that many elements
SkipTable(kind, inp, pool, checks) ==
  IF Len(inp) < 2 THEN Err(Eof)
  ELSE SkipElements(kind, After(inp, 2), 256 * inp[1] + inp[2], pool, checks)

\* the tables after the constant pool, one after the other from inp (the
\* three u16 of access_flags, this_class and super_class come first): the
\* outcome of the first element that does not decode, or Ok
RECURSIVE SkipTables(_, _, _, _)
SkipTables(kinds, inp, pool, checks) ==
  IF kinds = <<>> THEN Ok(inp, <<>>)
  ELSE CHOOSE outcome \in
         {IF IsOk(t) THEN SkipTables(Tail(kinds), t.rest, pool, checks) ELSE t :
            t \in {SkipTable(Head(kinds), inp, pool, checks)}} : TRUE

\* the first failure of the class file in stream order, or Ok
FirstFailure(inp, checks) ==
  IF Len(inp) < 10 THEN Err(Eof)
  ELSE CHOOSE outcome \in
         {IF ~IsOk(cs) THEN cs
          ELSE IF Len(cs.rest) < 6 THEN Err(Eof)
          ELSE SkipTables(<<"interface", "field", "method", "attribute">>,
                          After(cs.rest, 6), ConstantPool(After(inp, 8)).value, checks) :
            cs \in {SkipElements("constant", After(inp, 10),
                                 IF 256 * inp[9] + inp[10] = 0 THEN 0
                                 ELSE 256 * inp[9] + inp[10] - 1, <<>>, checks)}} : TRUE

WellFormedClassFiles ==
  {<<202, 254, 186, 190, 0, 0, 0, 65>> \o <<0, Len(constants) + 1>>
     \o Flatten(constants) \o <<0, 33, 0, 2, 0, 0>> \o interfaces \o fields
     \o methods \o attributes :
     constants \in UNION {[1..k -> SampleConstants] : k \in 0..MaxConstants},
     interfaces \in SampleInterfaces, fields \in SampleFields,
     methods \in SampleMethods, attributes \in SampleAttributes}

\* nop / index 0, Utf8 tag / index 1, Long tag / index 5, iload, '(', ')',
\* 'I', wide
TwiceBytes == {0, 1, 5, 21, 40, 41, 73, 196}

MaxTwiceLen == 3

InitTwice ==
  /\ \/ \E k \in 0..MaxTwiceLen : input \in [1..k -> TwiceBytes]
     \/ input \in WellFormedClassFiles
  /\ constant_pool \in {<<>>, SamplePool}
  /\ overflow_checks \in BOOLEAN
  /\ call = "none"
  /\ argument = <<>>
  /\ result = NoResult

\* the decoder of that name on these arguments
Decode(name, inp, pool, checks) ==
  CASE name = "parse_classfile" -> parse_classfile(inp, checks)
    [] name = "parse_constant" -> parse_constant(inp)
    [] name = "parse_attribute" -> parse_attribute(inp, pool, checks)
    [] name = "parse_field_type" -> parse_field_type(inp)
    [] name = "parse_method_descriptor" -> parse_method_descriptor(inp)
    [] name = "parse_instruction" -> parse_instruction(inp)

SecondCall ==
  /\ call # "none"
  /\ argument = <<>>
  /\ argument' = <<result>>
  /\ result' = Decode(call, input, constant_pool, overflow_checks)
  /\ UNCHANGED <<input, constant_pool, overflow_checks, call>>

NextTwice ==
  \/ ParseClassfile
  \/ ParseConstant
  \/ ParseAttribute
  \/ ParseFieldType
  \/ ParseMethodDescriptor
  \/ ParseInstruction
  \/ SecondCall

SpecTwice == InitTwice /\ [][NextTwice]_vars

MaxLowFlags == 15

FlagValues ==
  (0..MaxLowFlags)
    \cup {16, 32, 64, 128, 256, 512, 1024, 2048, 4096, 8192, 16384, 32768}
    \cup {4660, 32769, 65280, 65535}

InitFlags ==
  /\ input \in FlagValues \X FlagValues
  /\ constant_pool = <<>>
  /\ overflow_checks = FALSE
  /\ call = "none"
  /\ argument = <<>>
  /\ result = NoResult

Contains == Applied("contains", Ok(<<>>, contains(from_bits(input[1]), from_bits(input[2]))))

Union == Applied("union", Ok(<<>>, union(from_bits(input[1]), from_bits(input[2]))))

Intersection ==
  Applied("intersection", Ok(<<>>, intersection(from_bits(input[1]), from_bits(input[2]))))

BitOr == Applied("bitor", Ok(<<>>, bitor(from_bits(input[1]), from_bits(input[2]))))

BitAnd == Applied("bitand", Ok(<<>>, bitand(from_bits(input[1]), from_bits(input[2]))))

Bits == Applied("bits", Ok(<<>>, bits(from_bits(input[1]))))

NextFlags ==
  \/ Contains
  \/ Union
  \/ Intersection
  \/ BitOr
  \/ BitAnd
  \/ Bits

SpecFlags == InitFlags /\ [][NextFlags]_vars

\* bit i of a u16
BitOf(x, i) == (x \div (2 ^ i)) % 2

BitPositions == 0..15

\* C23: contains(a, b) holds exactly when every bit of b is set in a; union
\* has in each position the bit set in a or in b, intersection the bit set
\* in both; | and & return what union and intersection return; and
\* bits(from_bits(x)) is x, bits no constant names included.
C23_FlagOperations ==
  /\ call = "contains" =>
       (result.value <=>
          \A i \in BitPositions : BitOf(input[2], i) = 1 => BitOf(input[1], i) = 1)
  /\ call \in {"union", "bitor"} =>
       /\ result.value.bits \in 0..65535
       /\ \A i \in BitPositions :
            BitOf(result.value.bits, i) = 1
              <=> (BitOf(input[1], i) = 1 \/ BitOf(input[2], i) = 1)
  /\ call \in {"intersection", "bitand"} =>
       /\ result.value.bits \in 0..65535
       /\ \A i \in BitPositions :
            BitOf(result.value.bits, i) = 1
              <=> (BitOf(input[1], i) = 1 /\ BitOf(input[2], i) = 1)
  /\ call = "bits" => result.value = input[1]

\* 0x8001 | 0x1234 = 0x9235: a bit no flag type of fields or methods names
\* (0x8000) survives the union
C23_Witness ==
  /\ call = "bitor"
  /\ input = <<32769, 4660>>
  /\ result.value.bits = 37429


\* ------------------------------------------------ wide with missing operands

\* the operand bytes the widened form of an inner opcode needs
WidenedOperandLen(b) == IF b = 132 THEN 4 ELSE 2

\* C24: 0xc4, a wideable inner opcode and fewer operand bytes than the
\* widened shape needs (fewer than 2, fewer than 4 for iinc, none included)
\* fail with Eof, not with UnknownInstruction.
C24_WideShortOperandsIsEof ==
  (call = "parse_instruction" /\ Len(input) >= 2 /\ input[1] = 196
     /\ input[2] \in WideIndexOpcodes \cup {132}
     /\ Len(input) - 2 < WidenedOperandLen(input[2])) =>
    IsEof(result)

\* ------------------------------------------------ unterminated object types

\* C25: parse_field_type on 'L' with no ';' in the bytes after it fails with
\* the Eof of the scan for ';', not with an error of another kind.
C25_UnterminatedObjectIsEof ==
  (call = "parse_field_type" /\ input # <<>> /\ Head(input) = 76
     /\ \A i \in 2..Len(input) : input[i] # 59) =>
    IsEof(result)

\* ------------------------------------------------ invokeinterface, invokedynamic

\* C26: 0xb9 and 0xba followed by at least 4 bytes decode whatever the
\* trailing bytes hold (one for invokeinterface, two for invokedynamic),
\* consume 5 bytes and carry the big-endian u16 index, invokeinterface its
\* u8 count as well; 0 is stored in place of the trailing bytes.
C26_InvokeTrailingBytesIgnored ==
  (call = "parse_instruction" /\ Len(input) >= 5 /\ input[1] \in {185, 186}) =>
    /\ IsOk(result)
    /\ IsSuffixAfter(result.rest, input, 5)
    /\ input[1] = 185 =>
         result.value = Instr("Invokeinterface",
                              <<BigEndian("be_u16", After(input, 1)), input[4], 0>>)
    /\ input[1] = 186 =>
         result.value = Instr("Invokedynamic",
                              <<BigEndian("be_u16", After(input, 1)), 0, 0>>)

\* invokeinterface #0x01fe, count 255, trailing byte 255, then one more byte
C26_Witness ==
  /\ call = "parse_instruction"
  /\ Len(input) = 6
  /\ input[1] = 185
  /\ input[2] = 1
  /\ input[3] = 254
  /\ input[4] = 255
  /\ input[5] = 255
  /\ IsOk(result)
  /\ result.value.args = <<510, 255, 0>>
  /\ result.rest = <<input[6]>>


\* ------------------------------------------------ the Code attribute

\* the input with other attribute_length bytes
WithLength(length) == Take(input, 2) \o length \o After(input, 6)

\* C27: a Code attribute is decoded without regard to attribute_length:
\* max_stack and max_locals as found, code_length code bytes,
\* exception_table_length entries of four u16, attributes_count nested
\* attributes each decoded by parse_attribute with the same pool; the
\* remainder starts after the last nested attribute, and the outcome is the
\* same whatever attribute_length holds.
C27_CodeIgnoresAttributeLength ==
  (call = "parse_attribute" /\ Len(input) >= 6 /\ NameIndexOf(input) = 1
     /\ Len(constant_pool) >= 1 /\ constant_pool[1] = Utf8(CodeName)) =>
    /\ \A length \in {<<0, 0, 0, 0>>, <<0, 0, 0, 255>>, <<255, 255, 255, 255>>} :
         LET other == parse_attribute(WithLength(length), constant_pool, overflow_checks)
         IN other.tag = result.tag /\ other = result
    /\ IsOk(result) =>
         LET v == result.value
             n == U16At(12)
             x == U16At(14 + n)
             attributes_at == 16 + n + 8 * x
         IN /\ v.attr = "Code"
            /\ v.max_stack = U16At(6)
            /\ v.max_locals = U16At(8)
            /\ U16At(10) = 0
            /\ v.code = SubSeq(input, 15, 14 + n)
            /\ Len(v.exception_table) = x
            /\ \A j \in 1..x :
                 LET at == 16 + n + 8 * (j - 1)
                 IN v.exception_table[j] =
                      ExceptionTableEntry(U16At(at), U16At(at + 2), U16At(at + 4),
                                          U16At(at + 6))
            /\ Len(v.attributes) = U16At(attributes_at)
            /\ U16At(attributes_at) >= 1 =>
                 LET first == parse_attribute(After(input, attributes_at + 2),
                                              constant_pool, overflow_checks)
                 IN IsOk(first) /\ v.attributes[1] = first.value
            /\ IsSuffixAfter(result.rest, input, AttributeSize(v))

\* attribute_length 255 on a Code of max_stack 0xffff, two code bytes, one
\* exception table entry and a nested Code, with two bytes left over
C27_Witness ==
  /\ call = "parse_attribute"
  /\ IsOk(result)
  /\ result.value.attr = "Code"
  /\ U16At(4) = 255
  /\ result.value.max_stack = 65535
  /\ result.value.code = <<42, 177>>
  /\ Len(result.value.exception_table) = 1
  /\ Len(result.value.attributes) = 1
  /\ result.value.attributes[1].attr = "Code"
  /\ result.rest = <<18, 52>>


\* ------------------------------------------------ truncated class files
\* The caller holds a buffer (argument[1]: a class file and one byte after
\* it) and hands parse_classfile the first bytes of it.

InitPrefix ==
  /\ \E whole \in WellFormedClassFiles :
       /\ argument = <<whole \o <<202>>>>
       /\ \E cut \in 0..(Len(whole) + 1) : input = Take(whole \o <<202>>, cut)
  /\ constant_pool = <<>>
  /\ overflow_checks \in BOOLEAN
  /\ call = "none"
  /\ result = NoResult

NextPrefix == ParseClassfile

SpecPrefix == InitPrefix /\ [][NextPrefix]_vars

\* the bytes parse_classfile consumes of a buffer it accepts
Consumed(buffer, outcome) == Len(buffer) - Len(outcome.rest)

\* C28: when parse_classfile succeeds on a buffer and consumes its first k
\* bytes, it fails with Eof on every input made of fewer than k of those
\* bytes.
C28_TruncationIsEof ==
  call = "parse_classfile" =>
    LET whole == parse_classfile(argument[1], overflow_checks)
    IN (IsOk(whole) /\ Len(input) < Consumed(argument[1], whole)) => IsEof(result)

\* a class file of two constants, a field, a method and a class attribute,
\* one byte short
C28_Witness ==
  /\ call = "parse_classfile"
  /\ Len(input) > 60
  /\ LET whole == parse_classfile(argument[1], overflow_checks)
     IN /\ IsOk(whole)
        /\ Len(whole.value.fields) = 1
        /\ Len(whole.value.methods) = 1
        /\ Len(whole.value.attributes) = 1
        /\ Len(input) = Consumed(argument[1], whole) - 1
  /\ IsEof(result)


\* ------------------------------------------------ an instruction stream
\* The caller decodes a code array by calling parse_instruction, and again
\* on the remainder of each success, until the remainder is empty or a call
\* fails.  argument is <<code, steps>>: the code array and the number of
\* times the remainder was fed back.

\* nop, bipush, sipush, iload, iinc, tableswitch, wide, an opcode of no arm
StreamBytes == {0, 16, 17, 21, 132, 170, 196, 255}

MaxCodeLen == 4

InitStream ==
  /\ \E k \in 0..MaxCodeLen : input \in [1..k -> StreamBytes]
  /\ argument = <<input, 0>>
  /\ constant_pool = <<>>
  /\ overflow_checks = FALSE
  /\ call = "none"
  /\ result = NoResult

StreamStep ==
  /\ call = "parse_instruction"
  /\ IsOk(result)
  /\ result.rest # <<>>
  /\ input' = result.rest
  /\ argument' = <<argument[1], argument[2] + 1>>
  /\ call' = "none"
  /\ result' = NoResult
  /\ UNCHANGED <<constant_pool, overflow_checks>>

NextStream ==
  \/ ParseInstruction
  \/ StreamStep

SpecStream == InitStream /\ [][NextStream]_vars

\* the calls that have succeeded so far
SuccessfulSteps ==
  argument[2] + (IF call = "parse_instruction" /\ IsOk(result) THEN 1 ELSE 0)

\* no further call follows: the last call did not succeed, or left nothing
StreamStopped ==
  call = "parse_instruction" /\ ~(IsOk(result) /\ result.rest # <<>>)

\* the remainder of a success is a strict suffix of the input, and the
\* successes never outnumber the bytes of the code array
StreamProgress ==
  /\ (call = "parse_instruction" /\ IsOk(result)) =>
       /\ Len(result.rest) < Len(input)
       /\ IsSuffixAfter(result.rest, input, Len(input) - Len(result.rest))
  /\ IsSuffixAfter(input, argument[1], Len(argument[1]) - Len(input))
  /\ SuccessfulSteps <= Len(argument[1])

\* C29: every success of parse_instruction returns a strict suffix of its
\* input, so the stream over a code array stops after at most len(code)
\* successes, and it stops at the empty remainder or at the first error.
C29_StreamEndsAtEmptyOrError ==
  /\ StreamProgress
  /\ StreamStopped =>
       \/ IsOk(result) /\ result.rest = <<>>
       \/ result.tag = "Err"


\* ------------------------------------------------ printing a class file
\* ClassFile::print and Constant::print.  A text is the sequence of its
\* parts (bytes of Utf8 constants, numbers, separators); the padding of
\* columns and the access flag words are left out.  An Option is Ok(<<>>, v)
\* for Some(v) and NoResult for None.

Utf8Error == [kind |-> "Utf8Error"]

InvalidConstant == [kind |-> "InvalidConstant"]

Continuation(b) == b >= 128 /\ b <= 191

\* core::str::from_utf8: whether the bytes are well-formed UTF-8
RECURSIVE ValidUtf8(_)
ValidUtf8(s) ==
  IF s = <<>> THEN TRUE
  ELSE LET b == s[1]
           n == Len(s)
       IN IF b < 128 THEN ValidUtf8(After(s, 1))
          ELSE IF b >= 194 /\ b <= 223
          THEN n >= 2 /\ Continuation(s[2]) /\ ValidUtf8(After(s, 2))
          ELSE IF b >= 224 /\ b <= 239
          THEN /\ n >= 3
               /\ Continuation(s[2])
               /\ Continuation(s[3])
               /\ (b = 224 => s[2] >= 160)
               /\ (b = 237 => s[2] <= 159)
               /\ ValidUtf8(After(s, 3))
          ELSE IF b >= 240 /\ b <= 244
          THEN /\ n >= 4
               /\ Continuation(s[2])
               /\ Continuation(s[3])
               /\ Continuation(s[4])
               /\ (b = 240 => s[2] >= 144)
               /\ (b = 244 => s[2] <= 143)
               /\ ValidUtf8(After(s, 4))
          ELSE FALSE

from_utf8(value) == IF ValidUtf8(value) THEN Ok(<<>>, value) ELSE Err(Utf8Error)

\* constant_pool.get(index as usize - 1): index 0 overflows the
\* subtraction, a panic with overflow checks and usize::MAX without
PoolGet(pool, index, checks) ==
  IF index = 0 THEN (IF checks THEN Panic ELSE NoResult)
  ELSE IF index <= Len(pool) THEN Ok(<<>>, pool[index])
  ELSE NoResult

\* &constant_pool[index as usize - 1]: out of bounds panics, and index 0
\* panics in the subtraction or, wrapped to usize::MAX, in the indexing
PoolIndex(pool, index) ==
  IF index >= 1 /\ index <= Len(pool) THEN Ok(<<>>, pool[index]) ELSE Panic

\* Option::ok_or
OkOr(option, error) == IF option.tag = "None" THEN Err(error) ELSE option

get_constant_name(constant) == constant.variant

get_value(constant) ==
  CASE constant.variant = "Utf8" -> from_utf8(constant.value)
    [] constant.variant = "Class" -> Ok(<<>>, <<"#", constant.name_index>>)
    [] constant.variant = "String" -> Ok(<<>>, <<"#", constant.string_index>>)
    [] constant.variant \in {"Fieldref", "Methodref"} ->
         Ok(<<>>, <<"#", constant.class_index, ".#", constant.name_and_type_index>>)
    [] constant.variant = "NameAndType" ->
         Ok(<<>>, <<"#", constant.name_index, ":#", constant.descriptor_index>>)
    [] OTHER -> Panic

validate_utf8(pool, index) ==
  AndThen(PoolIndex(pool, index), LAMBDA reference :
    IF reference.value.variant = "Utf8" THEN get_value(reference.value)
    ELSE Err(InvalidConstant))

\* get_comment of a NameAndType
CommentOfNameAndType(constant, pool) ==
  AndThen(validate_utf8(pool, constant.name_index), LAMBDA name :
  AndThen(validate_utf8(pool, constant.descriptor_index), LAMBDA descriptor :
    Ok(<<>>, name.value \o <<":">> \o descriptor.value)))

\* get_comment of a Class
CommentOfClass(constant, pool) == validate_utf8(pool, constant.name_index)

validate_class(pool, index) ==
  AndThen(PoolIndex(pool, index), LAMBDA reference :
    IF reference.value.variant = "Class" THEN CommentOfClass(reference.value, pool)
    ELSE Err(InvalidConstant))

validate_name_and_type(pool, index) ==
  AndThen(PoolIndex(pool, index), LAMBDA reference :
    IF reference.value.variant = "NameAndType"
    THEN CommentOfNameAndType(reference.value, pool)
    ELSE Err(InvalidConstant))

get_comment(constant, pool) ==
  CASE constant.variant = "Utf8" -> Ok(<<>>, <<>>)
    [] constant.variant = "Class" -> CommentOfClass(constant, pool)
    [] constant.variant = "String" -> validate_utf8(pool, constant.string_index)
    [] constant.variant \in {"Fieldref", "Methodref"} ->
         AndThen(validate_class(pool, constant.class_index), LAMBDA class :
         AndThen(validate_name_and_type(pool, constant.name_and_type_index),
                 LAMBDA name_and_type :
                   Ok(<<>>, class.value \o <<".">> \o name_and_type.value)))
    [] constant.variant = "NameAndType" -> CommentOfNameAndType(constant, pool)
    [] OTHER -> Panic

\* Constant::print
Constant_print(self, pool) ==
  AndThen(get_value(self), LAMBDA value :
  AndThen(get_comment(self, pool), LAMBDA comment :
    Ok(<<>>, [name |-> get_constant_name(self), value |-> value.value,
              comment |-> IF comment.value = <<>> THEN <<>>
                          ELSE <<"// ">> \o comment.value])))

\* core::str::from_utf8(value).unwrap()
Unwrap(r) == IF IsOk(r) THEN r ELSE Panic

get_utf8(index, pool, checks) ==
  AndThen(PoolGet(pool, index, checks), LAMBDA constant :
    IF constant.value.variant = "Utf8" THEN Unwrap(from_utf8(constant.value.value))
    ELSE NoResult)

get_classname(index, pool, checks) ==
  AndThen(PoolGet(pool, index, checks), LAMBDA class :
    IF class.value.variant = "Class"
    THEN get_utf8(class.value.name_index, pool, checks)
    ELSE NoResult)

\* Result::ok
OkOption(r) == IF IsOk(r) THEN Ok(<<>>, r.value) ELSE NoResult

\* get_field_descriptor and get_method_descriptor, parse being
\* parse_field_type or parse_method_descriptor
GetDescriptor(index, pool, checks, parse(_)) ==
  AndThen(PoolGet(pool, index, checks), LAMBDA constant :
    IF constant.value.variant = "Utf8"
    THEN AndThen(OkOption(from_utf8(constant.value.value)),
                 LAMBDA value : OkOption(parse(value.value)))
    ELSE NoResult)

get_field_descriptor(index, pool, checks) ==
  GetDescriptor(index, pool, checks, parse_field_type)

get_method_descriptor(index, pool, checks) ==
  GetDescriptor(index, pool, checks, parse_method_descriptor)

\* FieldType::print
RECURSIVE FieldType_print(_)
FieldType_print(self) ==
  CASE self.ty = "Object" ->
         IF ValidUtf8(self.name)
         THEN [i \in 1..Len(self.name) |-> IF self.name[i] = 47 THEN 46 ELSE self.name[i]]
         ELSE <<>>
    [] self.ty = "Array" -> FieldType_print(self.elem) \o <<"[]">>
    [] self.ty = "Byte" -> <<"byte">>
    [] self.ty = "Char" -> <<"char">>
    [] self.ty = "Double" -> <<"double">>
    [] self.ty = "Float" -> <<"float">>
    [] self.ty = "Int" -> <<"int">>
    [] self.ty = "Long" -> <<"long">>
    [] self.ty = "Short" -> <<"short">>
    [] self.ty = "Boolean" -> <<"boolean">>
    [] self.ty = "Void" -> <<"void">>

\* MethodDescriptor::print_parameters
RECURSIVE print_parameters(_)
print_parameters(parameters) ==
  IF parameters = <<>> THEN <<>>
  ELSE IF Len(parameters) = 1 THEN FieldType_print(parameters[1])
  ELSE FieldType_print(parameters[1]) \o <<", ">> \o print_parameters(Tail(parameters))

\* for (i, constant) in self.constant_pool.iter().enumerate()
RECURSIVE PrintConstants(_, _, _)
PrintConstants(pool, i, lines) ==
  IF i > Len(pool) THEN Ok(<<>>, lines)
  ELSE AndThen(Constant_print(pool[i], pool),
               LAMBDA line : PrintConstants(pool, i + 1, Append(lines, line.value)))

\* for field in &self.fields
RECURSIVE PrintFields(_, _, _, _)
PrintFields(fields, pool, checks, lines) ==
  IF fields = <<>> THEN Ok(<<>>, lines)
  ELSE AndThen(OkOr(get_utf8(Head(fields).name_index, pool, checks), InvalidConstant),
               LAMBDA name :
       AndThen(OkOr(get_field_descriptor(Head(fields).descriptor_index, pool, checks),
                    InvalidConstant),
               LAMBDA descriptor :
         PrintFields(Tail(fields), pool, checks,
                     Append(lines, [descriptor |-> FieldType_print(descriptor.value),
                                    name |-> name.value]))))

\* for method in &self.methods
RECURSIVE PrintMethods(_, _, _, _)
PrintMethods(methods, pool, checks, lines) ==
  IF methods = <<>> THEN Ok(<<>>, lines)
  ELSE AndThen(OkOr(get_utf8(Head(methods).name_index, pool, checks), InvalidConstant),
               LAMBDA name :
       AndThen(OkOr(get_method_descriptor(Head(methods).descriptor_index, pool, checks),
                    InvalidConstant),
               LAMBDA descriptor :
         PrintMethods(Tail(methods), pool, checks,
                      Append(lines,
                             [return |-> FieldType_print(descriptor.value.return_type),
                              name |-> name.value,
                              parameters |->
                                print_parameters(descriptor.value.parameters)]))))

\* ClassFile::print
ClassFile_print(self, checks) ==
  AndThen(OkOr(get_classname(self.this_class, self.constant_pool, checks),
               InvalidConstant),
          LAMBDA classname :
  AndThen(PrintConstants(self.constant_pool, 1, <<>>), LAMBDA constants :
  AndThen(PrintFields(self.fields, self.constant_pool, checks, <<>>), LAMBDA fields :
  AndThen(PrintMethods(self.methods, self.constant_pool, checks, <<>>), LAMBDA methods :
    Ok(<<>>, [classname |-> classname.value,
              interfaces |-> Len(self.interfaces),
              attributes |-> Len(self.attributes),
              constant_pool |-> constants.value,
              fields |-> fields.value,
              methods |-> methods.value])))))

\* The caller holds a decoded class file (argument[1]; constant_pool is its
\* pool) and prints it, or prints one constant of its pool.

\* cp_info entries: Class #3, NameAndType #3:#3, Utf8 "I", Fieldref #1.#2,
\* Utf8 of the byte 0xff, Integer 7, String #1, Class #0
PrintableConstantBytes ==
  {<<7, 0, 3>>, <<12, 0, 3, 0, 3>>, <<1, 0, 1, 73>>, <<9, 0, 1, 0, 2>>,
   <<1, 0, 1, 255>>, <<3, 0, 0, 0, 7>>, <<8, 0, 1>>, <<7, 0, 0>>}

MaxPrintPool == 4

\* none, one field (name #3, descriptor #3), one method (name #0)
SampleMembers ==
  {<<0, 0, 0, 0>>, <<0, 1, 0, 2, 0, 3, 0, 3, 0, 0, 0, 0>>,
   <<0, 0, 0, 1, 0, 1, 0, 0, 0, 3, 0, 0>>}

\* the class files of the pools over PrintableConstantBytes
PrintableClassFiles ==
  {<<202, 254, 186, 190, 0, 0, 0, 65>> \o <<0, Len(constants) + 1>>
     \o Flatten(constants) \o <<0, 33, 0, this_class, 0, 0>> \o <<0, 0>>
     \o members \o <<0, 0>> :
     constants \in UNION {[1..k -> PrintableConstantBytes] : k \in 0..MaxPrintPool},
     this_class \in {0, 1, 5}, members \in SampleMembers}

InitPrint ==
  /\ input \in PrintableClassFiles
  /\ overflow_checks \in BOOLEAN
  /\ argument = <<parse_classfile(input, overflow_checks).value>>
  /\ constant_pool = argument[1].constant_pool
  /\ call = "none"
  /\ result = NoResult

ClassFilePrint ==
  /\ call = "none"
  /\ call' = "ClassFile::print"
  /\ result' = ClassFile_print(argument[1], overflow_checks)
  /\ UNCHANGED <<input, constant_pool, overflow_checks, argument>>

ConstantPrint ==
  /\ call = "none"
  /\ \E i \in 1..Len(constant_pool) :
       /\ argument' = <<argument[1], i>>
       /\ result' = Constant_print(constant_pool[i], constant_pool)
  /\ call' = "Constant::print"
  /\ UNCHANGED <<input, constant_pool, overflow_checks>>

NextPrint ==
  \/ ClassFilePrint
  \/ ConstantPrint

SpecPrint == InitPrint /\ [][NextPrint]_vars

\* C30: ClassFile::print and Constant::print return Ok or a typed error
\* (InvalidConstant or Utf8Error), never a panic, on every decoded class
\* file: a this_class, name or reference index of 0 or beyond the pool, a
\* reference to a constant of another variant, Utf8 bytes that are not
\* UTF-8 and constants of a kind other than Utf8, Class, String, Fieldref,
\* Methodref and NameAndType included.
C30_PrintReturnsTypedError ==
  call \in {"ClassFile::print", "Constant::print"} =>
    \/ IsOk(result)
    \/ IsErr(result, "InvalidConstant")
    \/ IsErr(result, "Utf8Error")

=============================================================================
